---------------------------- MODULE Spec2Model ----------------------------
(***************************************************************************)
(* State-machine model of the panoramic video generator: the frame         *)
(* compositor (SceneRenderer), the path generator (CameraTrajectory), the  *)
(* frame sink (VideoGenerator) and the top-level driver (main).            *)
(*                                                                         *)
(* Images are records [h, w, c, px]: px maps <<y, x>> (row, column, both   *)
(* from 0) to the tuple of the pixel's c channel values, each in 0..255.   *)
(* A 2-D array (a mask) is an image with c = 1.                            *)
(* Angles are rationals <<num, den>> in lowest terms, counted in turns     *)
(* (<<1, 4>> is pi/2); the rotation primitive is modelled for whole        *)
(* quarter turns, where its sampling positions are exact multiples of half *)
(* a pixel.  Scale factors are rationals <<num, den>>.                     *)
(***************************************************************************)
EXTENDS Integers, Sequences, FiniteSets, TLC

VARIABLES
    output_size,        \* SceneRenderer.output_size, <<width, height>>
    renderer_frames,    \* SceneRenderer.frames
    char_image,         \* the subject buffer handed to the renderer
    char_mask,          \* the mask buffer handed to the renderer
    env_image,          \* the background buffer handed to the renderer
    ret,                \* the last call: [op, args, status, value]
    earlier,            \* history: a remembered call, with its inputs
    radius,             \* CameraTrajectory.radius
    height,             \* CameraTrajectory.height
    num_frames,         \* CameraTrajectory.num_frames
    camera_positions,   \* CameraTrajectory.camera_positions, None or N rows
    camera_targets,     \* CameraTrajectory.camera_targets
    camera_ups,         \* CameraTrajectory.camera_ups
    generated,          \* history: a generate_*_trajectory call has happened
                        \* since construction or the last set_num_frames
    fps,                \* VideoGenerator.fps
    video_frames,       \* VideoGenerator.frames
    arrival,            \* history: the frames handed to the sink, in the
                        \* order of the add calls since the last clear
    container,          \* the video file written by the last generate_video
    image_files,        \* the files written by save_frames_as_images
    directories,        \* the directories created so far
    frames_shared,      \* the sink's list of frames is the renderer's list object
    cv2_nonfinite,      \* what this build's cv2.warpAffine samples under a
                        \* transform that is not finite; NoValue while every
                        \* angle is finite
    heap,               \* the dict objects of utils/config.py, by identity
    configs,            \* self.config of each Config constructed, in order
    character_loaded,   \* history: a call that loads a character has
                        \* returned
    environment_loaded, \* history: a call that loads or creates an
                        \* environment has returned
    pc,                 \* the stage main is about to run
    args,               \* main's parsed command line
    exit_status,        \* the status main ended with
    character_handler,  \* main's CharacterHandler
    environment_handler \* main's EnvironmentHandler

rendererVars == <<output_size, renderer_frames, char_image, char_mask, env_image>>
cameraVars == <<radius, height, num_frames, camera_positions, camera_targets,
                camera_ups, generated>>
sinkVars == <<fps, video_frames, arrival, container, image_files, directories,
              frames_shared>>
driverVars == <<pc, args, exit_status, character_handler, environment_handler>>
loadedVars == <<character_loaded, environment_loaded>>
configVars == <<heap, configs>>
vars == <<rendererVars, ret, earlier, cameraVars, sinkVars, driverVars, cv2_nonfinite,
         loadedVars, configVars>>

\* ------------------------------------------------------------------ bounds
MaxOut == 3          \* output width and height range over 1..MaxOut
MaxSub == 4          \* subject width and height range over 1..MaxSub
MaxAngles == 2       \* longest camera_angles array handed to render_frames
MaxNumFrames == 4    \* largest frame count of a trajectory
MaxSink == 3         \* most frames the sink is filled with

NoValue == [none |-> TRUE]

\* a component that has not been constructed
NoRenderer ==
    /\ output_size = NoValue /\ renderer_frames = NoValue
    /\ char_image = NoValue /\ char_mask = NoValue /\ env_image = NoValue

NoCamera ==
    /\ radius = NoValue /\ height = NoValue /\ num_frames = NoValue
    /\ camera_positions = NoValue /\ camera_targets = NoValue
    /\ camera_ups = NoValue /\ generated = FALSE

NoSink ==
    /\ fps = NoValue /\ video_frames = NoValue /\ arrival = <<>>
    /\ container = NoValue /\ image_files = <<>> /\ directories = {}
    /\ frames_shared = FALSE

\* --------------------------------------------------------------------- Config
\* Python values: numbers, strings, lists, None (NoValue) and references to
\* dict objects on the heap; a dict is its items in insertion order
Num(n) == [num |-> n]
Str(s) == [str |-> s]
List(l) == [list |-> l]
Ref(id) == [ref |-> id]
Item(k, v) == [key |-> k, value |-> v]

\* a dict written out by the caller (an override dictionary, a parsed YAML
\* document); its values are numbers, strings, lists, None or such dicts
Dict(items) == [items |-> items]

\* isinstance(value, dict), for a stored value and for a caller's value
IsDict(value) == "ref" \in DOMAIN value
IsDictArg(value) == "items" \in DOMAIN value

\* k in d, d[k] and d[k] = v
Has(d, k) == \E i \in 1 .. Len(d) : d[i].key = k
Lookup(d, k) == d[CHOOSE i \in 1 .. Len(d) : d[i].key = k].value
Put(d, k, v) ==
    IF Has(d, k)
    THEN [i \in 1 .. Len(d) |-> IF d[i].key = k THEN Item(k, v) ELSE d[i]]
    ELSE Append(d, Item(k, v))

\* d.update(items)
RECURSIVE Update(_, _)
Update(d, items) ==
    IF items = <<>> THEN d
    ELSE Update(Put(d, Head(items).key, Head(items).value), Tail(items))

\* the objects the class statement creates: DEFAULT_CONFIG is object 1, its
\* four sections are objects 2 .. 5
DEFAULT_CONFIG == 1
ClassHeap ==
    << << Item("video", Ref(2)), Item("camera", Ref(3)),
          Item("character", Ref(4)), Item("environment", Ref(5)) >>,
       << Item("fps", Num(30)), Item("num_frames", Num(120)),
          Item("output_size", List(<<1920, 1080>>)), Item("codec", Str("mp4v")) >>,
       << Item("radius", Num(5)), Item("height", Num(10)),
          Item("start_angle", Num(0)), Item("trajectory_type", Str("circular")) >>,
       << Item("scale", Num(1)), Item("target_size", NoValue) >>,
       << Item("type", Str("color")), Item("color", List(<<135, 206, 235>>)),
          Item("gradient_top", List(<<135, 206, 235>>)),
          Item("gradient_bottom", List(<<34, 139, 34>>)) >> >>

\* the class is defined and no Config has been constructed
NoConfig == heap = ClassHeap /\ configs = <<>>

NothingLoaded == character_loaded = FALSE /\ environment_loaded = FALSE

NoDriver ==
    /\ pc = NoValue /\ args = NoValue /\ exit_status = NoValue
    /\ character_handler = NoValue /\ environment_handler = NoValue

Min(a, b) == IF a < b THEN a ELSE b
Max(a, b) == IF a > b THEN a ELSE b

\* ------------------------------------------------------------------ angles
RECURSIVE Gcd(_, _)
Gcd(a, b) == IF b = 0 THEN a ELSE Gcd(b, a % b)

\* num/den in lowest terms, den > 0
Rat(num, den) ==
    LET g == Gcd(IF num < 0 THEN -num ELSE num, den)
    IN  <<num \div g, den \div g>>

RatAdd(a, b) == Rat(a[1] * b[2] + b[1] * a[2], a[2] * b[2])

ZeroAngle == <<0, 1>>
QuarterTurn == <<1, 4>>

\* (a linspace whose samples include the interval's end point)
LinspaceClosed(start, num) == [i \in 1 .. num |-> RatAdd(start, Rat(i - 1, Max(num - 1, 1)))]

\* np.linspace(start, start + 2 * np.pi, num, endpoint=False)
Linspace(start, num) == [i \in 1 .. num |-> RatAdd(start, Rat(i - 1, num))]

\* ------------------------------------------------------------------ arrays
Coords(h, w) == (0 .. h - 1) \X (0 .. w - 1)

\* a numpy array of shape (h, w, c), or (h, w) when c = 1
MkImage(h, w, c, F(_, _)) ==
    [h |-> h, w |-> w, c |-> c, px |-> [p \in Coords(h, w) |-> F(p[1], p[2])]]

Shape(img) == IF img.c = 1 THEN <<img.h, img.w>> ELSE <<img.h, img.w, img.c>>

\* Python's slice.indices: a[start:stop] on an axis of length n
SliceIndex(n, i) == IF i < 0 THEN Max(0, i + n) ELSE Min(i, n)
SliceStart(n, start) == SliceIndex(n, start)
SliceLen(n, start, stop) == Max(0, SliceIndex(n, stop) - SliceIndex(n, start))

\* a[y0:y1, x0:x1]
Crop(img, y0, y1, x0, x1) ==
    LET sy == SliceStart(img.h, y0)
        sx == SliceStart(img.w, x0)
    IN  MkImage(SliceLen(img.h, y0, y1), SliceLen(img.w, x0, x1), img.c,
                LAMBDA y, x : img.px[<<sy + y, sx + x>>])

\* a[:, :, :3]
DropAlpha(img) ==
    MkImage(img.h, img.w, 3, LAMBDA y, x : SubSeq(img.px[<<y, x>>], 1, 3))

\* np.stack([m] * 3, axis=2)
Stack3(m) ==
    MkImage(m.h, m.w, 3, LAMBDA y, x : <<m.px[<<y, x>>][1], m.px[<<y, x>>][1],
                                         m.px[<<y, x>>][1]>>)

\* numpy broadcasting of two axis lengths
BroadcastOk(a, b) == a = b \/ a = 1 \/ b = 1
BroadcastDim(a, b) == IF a = 1 THEN b ELSE a

\* ---------------------------------------------------------------- cv2.resize
\* Bilinear interpolation with pixel centres at half-integers and the edge
\* pixels replicated.  The weights are kept as exact fractions of 2*dw and
\* 2*dh and the sum is rounded to the nearest integer.
ResizeTap(dx, sw, dw) ==
    LET num == (2 * dx + 1) * sw - dw
        den == 2 * dw
        s0 == num \div den
        r0 == num % den
    IN  IF s0 < 0 THEN [i0 |-> 0, i1 |-> 0, f |-> 0, den |-> den]
        ELSE IF s0 >= sw - 1
             THEN [i0 |-> sw - 1, i1 |-> sw - 1, f |-> 0, den |-> den]
             ELSE [i0 |-> s0, i1 |-> s0 + 1, f |-> r0, den |-> den]

Resize(img, dw, dh) ==
    MkImage(dh, dw, img.c,
        LAMBDA y, x :
            LET tx == ResizeTap(x, img.w, dw)
                ty == ResizeTap(y, img.h, dh)
                den == tx.den * ty.den
            IN  [k \in 1 .. img.c |->
                   ( (tx.den - tx.f) * (ty.den - ty.f) * img.px[<<ty.i0, tx.i0>>][k]
                   + tx.f * (ty.den - ty.f) * img.px[<<ty.i0, tx.i1>>][k]
                   + (tx.den - tx.f) * ty.f * img.px[<<ty.i1, tx.i0>>][k]
                   + tx.f * ty.f * img.px[<<ty.i1, tx.i1>>][k]
                   + den \div 2 ) \div den])

\* ------------------------------------------- cv2.getRotationMatrix2D + warpAffine
\* Source position, in half pixels, that destination pixel (x, y) samples when an
\* image of size w x h is rotated about (w/2, h/2) by q quarter turns.
RotSource(w, h, q, x, y) ==
    CASE q % 4 = 0 -> <<2 * x, 2 * y>>
      [] q % 4 = 1 -> <<w + h - 2 * y, 2 * x - w + h>>
      [] q % 4 = 2 -> <<2 * w - 2 * x, 2 * h - 2 * y>>
      [] q % 4 = 3 -> <<2 * y + w - h, w + h - 2 * x>>

\* a source pixel, 0 outside the image (BORDER_CONSTANT)
Tap(img, x, y, k) ==
    IF x >= 0 /\ x < img.w /\ y >= 0 /\ y < img.h THEN img.px[<<y, x>>][k] ELSE 0

\* cv2.warpAffine(img, getRotationMatrix2D((w/2, h/2), 90 * q, 1.0), (w, h))
WarpQuarter(img, w, h, q) ==
    MkImage(h, w, img.c,
        LAMBDA y, x :
            LET s == RotSource(w, h, q, x, y)
                ix == s[1] \div 2
                fx == s[1] % 2
                iy == s[2] \div 2
                fy == s[2] % 2
            IN  [k \in 1 .. img.c |->
                   ( (2 - fx) * (2 - fy) * Tap(img, ix, iy, k)
                   + fx * (2 - fy) * Tap(img, ix + 1, iy, k)
                   + (2 - fx) * fy * Tap(img, ix, iy + 1, k)
                   + fx * fy * Tap(img, ix + 1, iy + 1, k)
                   + 2 ) \div 4])


\* ------------------------------------------------------------- SceneRenderer
\* int(char_w * character_scale): the product truncated towards zero
ScaledLen(n, scale) ==
    IF n * scale[1] >= 0 THEN (n * scale[1]) \div scale[2]
    ELSE -((-(n * scale[1])) \div scale[2])

\* (a placement that anchors the subject at the frame's origin)
PlacementAtOrigin(n, len) ==
    [start |-> 0, end |-> Min(n, len), char_start |-> 0, char_end |-> Min(n, len)]

\* the placement of one axis: frame length n (output_size[i]), subject length
\* len (char_w or char_h)
Placement(n, len) ==
    LET center == n \div 2
        start == Max(0, center - len \div 2)
        end == Min(n, start + len)
        char_start == IF start = center - len \div 2 THEN 0
                      ELSE center - len \div 2 - start
        char_end == IF end = start + len THEN len
                    ELSE char_start + (end - start)
    IN  [start |-> start, end |-> end, char_start |-> char_start,
         char_end |-> char_end]

\* (a blend with the weights of subject and background exchanged)
BlendValueSwapped(c, m, r) == (r * m + c * (255 - m)) \div 255

\* (char_crop * mask_3channel + roi * (1 - mask_3channel)).astype(np.uint8) for
\* one channel: c * (m/255) + r * (1 - m/255), truncated.  m = 255 gives c and
\* m = 0 gives r exactly.
BlendValue(c, m, r) == (c * m + r * (255 - m)) \div 255

\* the broadcast blend of char_crop (h x w x 3), mask_3channel and roi
Blend(char_crop, mask_3channel, roi) ==
    LET h == BroadcastDim(BroadcastDim(char_crop.h, mask_3channel.h),
                          BroadcastDim(roi.h, mask_3channel.h))
        w == BroadcastDim(BroadcastDim(char_crop.w, mask_3channel.w),
                          BroadcastDim(roi.w, mask_3channel.w))
        At(img, y, x) == img.px[<<IF img.h = 1 THEN 0 ELSE y,
                                  IF img.w = 1 THEN 0 ELSE x>>]
    IN  MkImage(h, w, 3,
            LAMBDA y, x : [k \in 1 .. 3 |->
                BlendValue(At(char_crop, y, x)[k], At(mask_3channel, y, x)[k],
                           At(roi, y, x)[k])])

\* whether numpy evaluates the blend of these shapes and stores it into roi
BlendShapesOk(char_crop, mask_3channel, roi) ==
    LET th == BroadcastDim(char_crop.h, mask_3channel.h)
        tw == BroadcastDim(char_crop.w, mask_3channel.w)
        uh == BroadcastDim(roi.h, mask_3channel.h)
        uw == BroadcastDim(roi.w, mask_3channel.w)
    IN  /\ BroadcastOk(char_crop.h, mask_3channel.h)
        /\ BroadcastOk(char_crop.w, mask_3channel.w)
        /\ BroadcastOk(roi.h, mask_3channel.h)
        /\ BroadcastOk(roi.w, mask_3channel.w)
        /\ BroadcastOk(th, uh)
        /\ BroadcastOk(tw, uw)
        /\ BroadcastDim(th, uh) \in {1, roi.h}
        /\ BroadcastDim(tw, uw) \in {1, roi.w}

\* (a paste that hands back the blended region instead of the frame)
PasteRegionOnly(env_frame, y0, x0, roi, blended) == blended

\* env_frame[y0:y1, x0:x1] = blended
Paste(env_frame, y0, x0, roi, blended) ==
    MkImage(env_frame.h, env_frame.w, env_frame.c,
        LAMBDA y, x :
            IF y >= y0 /\ y < y0 + roi.h /\ x >= x0 /\ x < x0 + roi.w
            THEN blended.px[<<IF blended.h = 1 THEN 0 ELSE y - y0,
                              IF blended.w = 1 THEN 0 ELSE x - x0>>]
            ELSE env_frame.px[<<y, x>>])

Raised(kind) == [status |-> kind, value |-> NoValue]
Returned(v) == [status |-> "ok", value |-> v]

\* render_frame from "Calculate position" on: place, crop, blend and paste the
\* (scaled, rotated) subject into env_frame
Composite(size, env_frame, character_image, character_mask) ==
    LET px == Placement(size[1], character_image.w)
        py == Placement(size[2], character_image.h)
        roi == Crop(env_frame, py.start, py.end, px.start, px.end)
        crop4 == Crop(character_image, py.char_start, py.char_end,
                      px.char_start, px.char_end)
        mask_crop == Crop(character_mask, py.char_start, py.char_end,
                          px.char_start, px.char_end)
        char_crop == IF crop4.c = 4 THEN DropAlpha(crop4) ELSE crop4
        mask_3channel == Stack3(mask_crop)
    IN  IF BlendShapesOk(char_crop, mask_3channel, roi)
        THEN Returned(Paste(env_frame, py.start, px.start, roi,
                            Blend(char_crop, mask_3channel, roi)))
        ELSE Raised("ValueError")

\* np.degrees(camera_angle) / 90 for a camera angle that is a whole number of
\* quarter turns
Quarters(camera_angle) == (4 * camera_angle[1]) \div camera_angle[2]

\* a float that is a number: NaN is <<0, 0>>, the infinities <<1, 0>>, <<-1, 0>>
IsFinite(x) == x[2] # 0

\* cv2.warpAffine under a matrix of NaNs: the source coordinates are casts of
\* NaN to int, whose value the build decides; every pixel samples the same
\* place, outside the image (the border's 0) or its first pixel
WarpNonFinite(img, w, h) ==
    MkImage(h, w, img.c, LAMBDA y, x : CASE cv2_nonfinite = "border" -> [k \in 1 .. img.c |-> 0] [] cv2_nonfinite = "corner" -> img.px[<<0, 0>>])

\* render_frame's body for a renderer of output size `size`
RenderAt(size, character_image, character_mask, environment_image, camera_angle, character_scale) ==
    LET env_frame == Resize(environment_image, size[1], size[2])
        scaling == ~(IsFinite(character_scale) /\ character_scale[1] = character_scale[2])
        new_w == ScaledLen(character_image.w, character_scale)
        new_h == ScaledLen(character_image.h, character_scale)
    IN  IF scaling /\ ~IsFinite(character_scale)
        THEN Raised(IF character_scale[1] = 0 THEN "ValueError" ELSE "OverflowError")
        ELSE IF scaling /\ (new_w <= 0 \/ new_h <= 0)
        THEN Raised("cv2.error")
        ELSE LET image1 == IF scaling THEN Resize(character_image, new_w, new_h)
                           ELSE character_image
                 mask1 == IF scaling THEN Resize(character_mask, new_w, new_h)
                          ELSE character_mask
                 image2 == IF camera_angle = ZeroAngle THEN image1
                           ELSE IF IsFinite(camera_angle)
                           THEN WarpQuarter(image1, image1.w, image1.h,
                                            Quarters(camera_angle))
                           ELSE WarpNonFinite(image1, image1.w, image1.h)
                 mask2 == IF camera_angle = ZeroAngle THEN mask1
                          ELSE IF IsFinite(camera_angle)
                          THEN WarpQuarter(mask1, image1.w, image1.h,
                                           Quarters(camera_angle))
                          ELSE WarpNonFinite(mask1, image1.w, image1.h)
             IN  Composite(size, env_frame, image2, mask2)

\* (a render_frame whose rotation advances with the frames already stored)
render_frame_stateful(self, character_image, character_mask, environment_image, camera_angle, character_scale) ==
    RenderAt(self.output_size, character_image, character_mask, environment_image,
             RatAdd(camera_angle, Rat(Len(self.frames), 4)), character_scale)

\* SceneRenderer.render_frame.  self is [output_size, frames]; only
\* self.output_size is read.
render_frame(self, character_image, character_mask, environment_image, camera_angle, character_scale) ==
    RenderAt(self.output_size, character_image, character_mask, environment_image,
             camera_angle, character_scale)

\* (a render_frames that appends to the frames of the previous call)
KeptFrames(self) == self.frames

\* render_frames: self.frames = []
FreshFrames(self) == <<>>

\* the loop of render_frames from camera_angles[i] on, self.frames being acc:
\* [status, value, frames], frames being self.frames when the call ends
RECURSIVE RenderLoop(_, _, _, _, _, _, _, _)
RenderLoop(size, character_image, character_mask, environment_image, camera_angles, character_scale, i, acc) ==
    IF i > Len(camera_angles)
    THEN [status |-> "ok", value |-> acc, frames |-> acc]
    ELSE LET frame == render_frame([output_size |-> size, frames |-> acc],
                                   character_image, character_mask,
                                   environment_image, camera_angles[i],
                                   character_scale)
         IN  IF frame.status # "ok"
             THEN [status |-> frame.status, value |-> NoValue, frames |-> acc]
             ELSE RenderLoop(size, character_image, character_mask,
                             environment_image, camera_angles, character_scale,
                             i + 1, Append(acc, frame.value))

\* SceneRenderer.render_frames
render_frames(self, character_image, character_mask, environment_image, camera_angles, character_scale) ==
    RenderLoop(self.output_size, character_image, character_mask,
               environment_image, camera_angles, character_scale, 1,
               FreshFrames(self))

\* (a resize that hands back the source buffer when the size is already right)
ResizeSharesSameSize(img, w, h) == img.w = w /\ img.h = h

\* whether the array cv2.resize returns shares its buffer with the source:
\* never, dst is allocated by the call also when the size does not change
ResizeShares(img, w, h) == FALSE

\* the caller's background buffer as a call leaves it, frame being what the
\* call last stored through env_frame[y_start:y_end, x_start:x_end] = blended
\* (NoValue when it stored nothing).  This is the only store into an array in
\* render_frame: scaling and rotation rebind the local names character_image
\* and character_mask, the crops are read, the blend is a new array.
EnvironmentAfter(size, environment_image, frame) ==
    IF ResizeShares(environment_image, size[1], size[2]) /\ frame # NoValue
    THEN frame
    ELSE environment_image

\* the frame a sequence of calls stored last
LastFrame(frames) == IF frames = <<>> THEN NoValue ELSE frames[Len(frames)]

\* ------------------------------------------------------------------- inputs
\* subject pixels: every pixel differs from its neighbours and from the
\* background; the fourth channel, when present, is an alpha unrelated to the mask
CharPixel(c, variant, x, y) ==
    LET rgb == <<201 + 10 * y + x - 100 * variant, 100 + 10 * x + y,
                 60 + x + y + variant>>
    IN  IF c = 4 THEN rgb \o <<250 - x - 2 * y>> ELSE rgb

CharImage(w, h, c, variant) ==
    MkImage(h, w, c, LAMBDA y, x : CharPixel(c, variant, x, y))

MaskKinds == {"opaque", "clear", "mixed"}

MaskValue(kind, x, y) ==
    CASE kind = "opaque" -> 255
      [] kind = "clear" -> 0
      [] kind = "mixed" -> <<255, 0, 128>>[((x + y) % 3) + 1]

MaskImage(w, h, kind) == MkImage(h, w, 1, LAMBDA y, x : <<MaskValue(kind, x, y)>>)

EnvImage(w, h) ==
    MkImage(h, w, 3, LAMBDA y, x : <<10 + 20 * y + x, 20 + 3 * y, 30 + 7 * x>>)

Scales == {<<1, 1>>, <<1, 2>>, <<2, 1>>}
RenderAngles == {Rat(k, 4) : k \in 0 .. 3}

NoCall == [op |-> "none", args |-> NoValue, status |-> "none", value |-> NoValue]

\* a renderer constructed for an output size, and the buffers of one scene
InitRenderer ==
    /\ output_size \in (1 .. MaxOut) \X (1 .. MaxOut)
    /\ renderer_frames = <<>>
    /\ \E w \in 1 .. MaxSub, h \in 1 .. MaxSub, c \in {3, 4}, variant \in {0, 1},
          kind \in MaskKinds :
          /\ char_image = CharImage(w, h, c, variant)
          /\ char_mask = MaskImage(w, h, kind)
    /\ \E grow \in {0, 1} :
          env_image = EnvImage(output_size[1] + grow, output_size[2] + grow)

Self == [output_size |-> output_size, frames |-> renderer_frames]

\* a call of SceneRenderer.render_frame on the scene's buffers
RenderFrame(camera_angle, character_scale) ==
    LET r == render_frame(Self, char_image, char_mask, env_image,
                          camera_angle, character_scale)
    IN  /\ ret' = [op |-> "render_frame",
                   args |-> [camera_angle |-> camera_angle,
                             character_scale |-> character_scale],
                   status |-> r.status, value |-> r.value]
        /\ env_image' = EnvironmentAfter(output_size, env_image, r.value)
        /\ UNCHANGED <<cv2_nonfinite, configVars, loadedVars, output_size, renderer_frames, char_image, char_mask, earlier, cameraVars, sinkVars, driverVars>>

\* a call of SceneRenderer.render_frames on the scene's buffers
RenderFrames(camera_angles, character_scale) ==
    LET r == render_frames(Self, char_image, char_mask, env_image,
                           camera_angles, character_scale)
    IN  /\ renderer_frames' = r.frames
        /\ ret' = [op |-> "render_frames",
                   args |-> [camera_angles |-> camera_angles,
                             character_scale |-> character_scale],
                   status |-> r.status, value |-> r.value]
        /\ env_image' = EnvironmentAfter(output_size, env_image, LastFrame(r.frames))
        /\ frames_shared' = FALSE
        /\ UNCHANGED <<cv2_nonfinite, configVars, loadedVars, output_size, char_image, char_mask, earlier,
                     cameraVars, fps, video_frames, arrival, container, image_files,
                     directories, driverVars>>

\* SceneRenderer.get_frames
GetFrames ==
    /\ ret' = [op |-> "get_frames", args |-> NoValue, status |-> "ok",
               value |-> renderer_frames]
    /\ UNCHANGED <<cv2_nonfinite, configVars, loadedVars, rendererVars, earlier, cameraVars, sinkVars, driverVars>>

\* SceneRenderer.clear_frames
ClearFrames ==
    /\ renderer_frames' = <<>>
    /\ ret' = [op |-> "clear_frames", args |-> NoValue, status |-> "ok",
               value |-> NoValue]
    /\ frames_shared' = FALSE
    /\ UNCHANGED <<cv2_nonfinite, configVars, loadedVars, output_size, char_image, char_mask, env_image, earlier,
                     cameraVars, fps, video_frames, arrival, container, image_files,
                     directories, driverVars>>

\* the observer keeps the render_frame call just made, with its inputs and the
\* number of frames the renderer held during it
Snapshot ==
    [op |-> ret.op, args |-> ret.args, status |-> ret.status, value |-> ret.value,
     output_size |-> output_size, character_image |-> char_image,
     character_mask |-> char_mask, environment_image |-> env_image,
     stored |-> Len(renderer_frames)]

Remember ==
    /\ ret.op = "render_frame"
    /\ earlier # Snapshot
    /\ earlier' = Snapshot
    /\ UNCHANGED <<cv2_nonfinite, configVars, loadedVars, rendererVars, ret, cameraVars, sinkVars, driverVars>>

InitCompose ==
    /\ InitRenderer /\ ret = NoCall /\ earlier = NoCall /\ cv2_nonfinite = NoValue /\ NothingLoaded /\ NoConfig
    /\ NoCamera /\ NoSink /\ NoDriver

\* one call of render_frame on each scene, angle and scale
NextCompose ==
    /\ ret.op = "none"
    /\ \E a \in RenderAngles, s \in Scales : RenderFrame(a, s)

SpecCompose == InitCompose /\ [][NextCompose]_vars

\* ---- the renderer over time
HistoryAngles == {ZeroAngle, Rat(1, 2)}
HistoryScales == {<<1, 1>>, <<1, 2>>}
\* the camera_angles arrays of at most MaxAngles entries
AngleSeqs == UNION {[1 .. n -> HistoryAngles] : n \in 0 .. MaxAngles}
\* those that hold the angle 0 only
ZeroSeqs == {[i \in 1 .. n |-> ZeroAngle] : n \in 0 .. MaxAngles}

\* a renderer and a scene whose subject is a single pixel, fits or exceeds the
\* frame
InitSequence ==
    /\ InitRenderer
    /\ output_size = <<MaxOut, MaxOut - 1>>
    /\ char_image.w \in {1, 2, MaxSub} /\ char_image.h \in {1, 2, MaxSub}
    /\ char_image = CharImage(char_image.w, char_image.h, 4, 0)
    /\ char_mask = MaskImage(char_image.w, char_image.h, "mixed")
    /\ env_image.w = output_size[1]
    /\ ret = NoCall
    /\ earlier = NoCall /\ cv2_nonfinite = NoValue /\ NothingLoaded /\ NoConfig
    /\ NoCamera /\ NoSink /\ NoDriver

\* sequences of frames rendered, read and cleared
NextSequence ==
    \/ \E as \in AngleSeqs, s \in HistoryScales : RenderFrames(as, s)
    \/ GetFrames
    \/ ClearFrames

SpecSequence == InitSequence /\ [][NextSequence]_vars

InitHistory == InitSequence /\ char_image.w = char_image.h

\* single frames rendered between sequences of any length and clears
NextHistory ==
    \/ \E a \in HistoryAngles, s \in HistoryScales : RenderFrame(a, s)
    \/ \E as \in ZeroSeqs, s \in HistoryScales : RenderFrames(as, s)
    \/ ClearFrames
    \/ Remember

SpecHistory == InitHistory /\ [][NextHistory]_vars

\* ---- the renderer on degenerate parameters
NaN == <<0, 0>>
Infinities == {<<1, 0>>, <<-1, 0>>}
Builds == {"border", "corner"}
DegenerateAngles == {ZeroAngle, QuarterTurn, NaN} \cup Infinities
DegenerateScales == {<<1, 1>>, <<1, 2>>, <<0, 1>>, <<-1, 2>>, <<-1, 1>>, NaN} \cup Infinities

InitDegenerate ==
    /\ InitRenderer
    /\ output_size = <<MaxOut, MaxOut - 1>>
    /\ char_image.w \in {1, 2, MaxSub} /\ char_image.h \in {1, 2, MaxSub}
    /\ char_image = CharImage(char_image.w, char_image.h, 4, 0)
    /\ char_mask = MaskImage(char_image.w, char_image.h, "mixed")
    /\ env_image.w = output_size[1]
    /\ ret = NoCall /\ earlier = NoCall
    /\ cv2_nonfinite \in Builds /\ NothingLoaded /\ NoConfig
    /\ NoCamera /\ NoSink /\ NoDriver

\* one call of render_frame for each angle and scale, numbers or not
NextDegenerate ==
    /\ ret.op = "none"
    /\ \E a \in DegenerateAngles, s \in DegenerateScales : RenderFrame(a, s)

SpecDegenerate == InitDegenerate /\ [][NextDegenerate]_vars

\* ---------------------------------------------------------- CameraTrajectory
\* A coordinate of a row is the term base + amp * fn(angle), fn one of cos,
\* sin, or the constant base; amp is a rational <<num, den>>.
Const(v) == [fn |-> "const", base |-> v, amp |-> <<0, 1>>, angle |-> ZeroAngle]
Trig(base, amp, fn, angle) == [fn |-> fn, base |-> base, amp |-> amp, angle |-> angle]

\* an array of rows; an attribute holding None is NoValue
Array(rows) == [rows |-> rows]

\* (a tile that repeats the row once, whatever the count)
TileOnce(row, num) == Array(<<row>>)

\* np.tile(row, (num, 1))
Tile(row, num) == Array([i \in 1 .. num |-> row])

generate_circular_trajectory(self, center, start_angle) ==
    LET angles == Linspace(start_angle, self.num_frames)
        positions == [i \in 1 .. self.num_frames |->
                        <<Trig(center[1], <<self.radius, 1>>, "cos", angles[i]),
                          Trig(center[2], <<self.radius, 1>>, "sin", angles[i]),
                          Const(center[3] + self.height)>>]
    IN  [self EXCEPT !.camera_positions = Array(positions),
                     !.camera_targets = Tile(<<Const(center[1]), Const(center[2]), Const(center[3])>>, self.num_frames),
                     !.camera_ups = Tile(<<Const(0), Const(0), Const(1)>>, self.num_frames)]

generate_top_view_trajectory(self, center, tilt_angle) ==
    IF tilt_angle = ZeroAngle
    THEN LET angles == Linspace(ZeroAngle, self.num_frames)
         IN  [self EXCEPT
                !.camera_positions = Tile(<<Const(center[1]), Const(center[2]), Const(center[3] + self.height)>>, self.num_frames),
                !.camera_targets = Array([i \in 1 .. self.num_frames |->
                        <<Trig(center[1], <<1, 10>>, "cos", angles[i]),
                          Trig(center[2], <<1, 10>>, "sin", angles[i]),
                          Const(center[3])>>]),
                !.camera_ups = Array([i \in 1 .. self.num_frames |->
                        <<Trig(0, <<-1, 1>>, "sin", angles[i]),
                          Trig(0, <<1, 1>>, "cos", angles[i]),
                          Const(0)>>])]
    ELSE generate_circular_trajectory(self, center, ZeroAngle)

\* array[frame_idx] on an array of n rows: negative indices count from the end
RowIndex(n, frame_idx) == IF frame_idx < 0 THEN frame_idx + n + 1 ELSE frame_idx + 1

get_camera_parameters(self, frame_idx) ==
    IF self.camera_positions = NoValue THEN Raised("ValueError")
    ELSE IF RowIndex(Len(self.camera_positions.rows), frame_idx) \notin 1 .. Len(self.camera_positions.rows)
    THEN Raised("IndexError")
    ELSE LET i == RowIndex(Len(self.camera_positions.rows), frame_idx)
         IN  Returned(<<self.camera_positions.rows[i], self.camera_targets.rows[i], self.camera_ups.rows[i]>>)

get_all_camera_parameters(self) ==
    IF self.camera_positions = NoValue THEN Raised("ValueError")
    ELSE Returned(<<self.camera_positions, self.camera_targets, self.camera_ups>>)

\* (a set_num_frames under which the generated arrays survive the new count)
set_num_frames_keeping(self, n) == [self EXCEPT !.num_frames = n]

set_num_frames(self, n) ==
    [self EXCEPT !.num_frames = n, !.camera_positions = NoValue,
                 !.camera_targets = NoValue, !.camera_ups = NoValue]

Radii == {5, 8}
Heights == {10}
Centers == {<<0, 0, 0>>, <<1, 2, 3>>}
StartAngles == {ZeroAngle, QuarterTurn, Rat(1, 3)}
Tilts == {ZeroAngle, Rat(1, 12)}
FrameCounts == 0 .. MaxNumFrames
FrameIndices == -1 .. MaxNumFrames

Camera ==
    [radius |-> radius, height |-> height, num_frames |-> num_frames,
     camera_positions |-> camera_positions, camera_targets |-> camera_targets,
     camera_ups |-> camera_ups]

\* the camera's fields after a call
CameraBecomes(c) ==
    /\ radius' = c.radius /\ height' = c.height /\ num_frames' = c.num_frames
    /\ camera_positions' = c.camera_positions
    /\ camera_targets' = c.camera_targets
    /\ camera_ups' = c.camera_ups

\* a camera constructed for a radius, a height and a frame count
InitCamera ==
    /\ radius \in Radii /\ height \in Heights /\ num_frames \in FrameCounts
    /\ camera_positions = NoValue /\ camera_targets = NoValue
    /\ camera_ups = NoValue /\ generated = FALSE

GenerateCircularTrajectory(center, start_angle) ==
    /\ CameraBecomes(generate_circular_trajectory(Camera, center, start_angle))
    /\ generated' = TRUE
    /\ ret' = [op |-> "generate_circular_trajectory",
               args |-> [center |-> center, start_angle |-> start_angle],
               status |-> "ok", value |-> NoValue]
    /\ UNCHANGED <<cv2_nonfinite, configVars, loadedVars, rendererVars, earlier, sinkVars, driverVars>>

GenerateTopViewTrajectory(center, tilt_angle) ==
    /\ CameraBecomes(generate_top_view_trajectory(Camera, center, tilt_angle))
    /\ generated' = TRUE
    /\ ret' = [op |-> "generate_top_view_trajectory",
               args |-> [center |-> center, tilt_angle |-> tilt_angle],
               status |-> "ok", value |-> NoValue]
    /\ UNCHANGED <<cv2_nonfinite, configVars, loadedVars, rendererVars, earlier, sinkVars, driverVars>>

GetCameraParameters(frame_idx) ==
    LET r == get_camera_parameters(Camera, frame_idx)
    IN  /\ ret' = [op |-> "get_camera_parameters",
                   args |-> [frame_idx |-> frame_idx],
                   status |-> r.status, value |-> r.value]
        /\ UNCHANGED <<cv2_nonfinite, configVars, loadedVars, rendererVars, earlier, cameraVars, sinkVars, driverVars>>

GetAllCameraParameters ==
    LET r == get_all_camera_parameters(Camera)
    IN  /\ ret' = [op |-> "get_all_camera_parameters", args |-> NoValue,
                   status |-> r.status, value |-> r.value]
        /\ UNCHANGED <<cv2_nonfinite, configVars, loadedVars, rendererVars, earlier, cameraVars, sinkVars, driverVars>>

SetNumFrames(n) ==
    /\ CameraBecomes(set_num_frames(Camera, n))
    /\ generated' = FALSE
    /\ ret' = [op |-> "set_num_frames", args |-> [num_frames |-> n],
               status |-> "ok", value |-> NoValue]
    /\ UNCHANGED <<cv2_nonfinite, configVars, loadedVars, rendererVars, earlier, sinkVars, driverVars>>

InitTrajectory ==
    /\ InitCamera /\ ret = NoCall /\ earlier = NoCall /\ cv2_nonfinite = NoValue /\ NothingLoaded /\ NoConfig
    /\ NoRenderer /\ NoSink /\ NoDriver

NextTrajectory ==
    \/ \E c \in Centers, a \in StartAngles : GenerateCircularTrajectory(c, a)
    \/ \E c \in Centers, t \in Tilts : GenerateTopViewTrajectory(c, t)
    \/ \E i \in FrameIndices : GetCameraParameters(i)
    \/ GetAllCameraParameters
    \/ \E n \in FrameCounts : SetNumFrames(n)

SpecTrajectory == InitTrajectory /\ [][NextTrajectory]_vars

\* ------------------------------------------------------------ VideoGenerator
\* cv2.cvtColor(frame, cv2.COLOR_RGB2BGR): the first and third channel change
\* places; a fourth channel is dropped; other channel counts are rejected
RGB2BGR(frame) ==
    MkImage(frame.h, frame.w, 3, LAMBDA y, x : <<frame.px[<<y, x>>][3], frame.px[<<y, x>>][2], frame.px[<<y, x>>][1]>>)

CanConvert(frame) == frame.c \in {3, 4}

\* the decimal digits of n, most significant first
RECURSIVE Digits(_)
Digits(n) == IF n < 10 THEN <<n>> ELSE Append(Digits(n \div 10), n % 10)

\* f"{idx:05d}": at least five digits, padded with zeros on the left
ZeroPad5(idx) ==
    LET d == Digits(idx)
    IN  [i \in 1 .. Max(0, 5 - Len(d)) |-> 0] \o d

\* a path, by its name
Path(name) == [path |-> name]

\* f"{prefix}_{idx:05d}.png"
Filename(prefix, idx) == [prefix |-> prefix, digits |-> ZeroPad5(idx), ext |-> "png"]

\* (an add_frames that does not add a frame the sink already holds)
add_frames_unique(self, frames) ==
    [self EXCEPT !.frames = @ \o SelectSeq(frames, LAMBDA f : \A i \in 1 .. Len(self.frames) : self.frames[i] # f)]

add_frame(self, frame) == [self EXCEPT !.frames = Append(@, frame)]

add_frames(self, frames) == [self EXCEPT !.frames = @ \o frames]

\* the frames handed to out.write before the first frame cvtColor rejects
RECURSIVE WriteLoop(_, _)
WriteLoop(frames, written) ==
    IF frames = <<>> THEN [status |-> "ok", written |-> written]
    ELSE IF ~CanConvert(Head(frames)) THEN [status |-> "cv2.error", written |-> written]
    ELSE WriteLoop(Tail(frames), Append(written, RGB2BGR(Head(frames))))

\* (a generate_video that opens its writer before it looks at the frames)
generate_video_opening_first(self, output_path, codec) ==
    IF self.frames = <<>>
    THEN [status |-> "ValueError",
          container |-> [path |-> output_path, codec |-> codec, fps |-> self.fps,
                         size |-> <<0, 0>>, written |-> <<>>, released |-> FALSE]]
    ELSE LET loop == WriteLoop(self.frames, <<>>)
         IN  [status |-> loop.status,
              container |-> [path |-> output_path, codec |-> codec, fps |-> self.fps,
                             size |-> <<self.frames[1].w, self.frames[1].h>>,
                             written |-> loop.written,
                             released |-> loop.status = "ok"]]

\* generate_video: the result and the video file it leaves; written holds the
\* frames handed to out.write in call order, released whether out.release()
\* was reached
generate_video(self, output_path, codec) ==
    IF self.frames = <<>>
    THEN [status |-> "ValueError", container |-> NoValue]
    ELSE LET loop == WriteLoop(self.frames, <<>>)
         IN  [status |-> loop.status,
              container |-> [path |-> output_path, codec |-> codec, fps |-> self.fps,
                             size |-> <<self.frames[1].w, self.frames[1].h>>,
                             written |-> loop.written,
                             released |-> loop.status = "ok"]]

\* the files imwrite is called for before the first frame cvtColor rejects
RECURSIVE SaveLoop(_, _, _, _)
SaveLoop(frames, output_dir, prefix, files) ==
    IF Len(files) = Len(frames) THEN [status |-> "ok", files |-> files]
    ELSE IF ~CanConvert(frames[Len(files) + 1]) THEN [status |-> "cv2.error", files |-> files]
    ELSE SaveLoop(frames, output_dir, prefix,
                  Append(files, [dir |-> output_dir,
                                 name |-> Filename(prefix, Len(files)),
                                 image |-> RGB2BGR(frames[Len(files) + 1])]))

save_frames_as_images(self, output_dir, prefix) ==
    IF self.frames = <<>>
    THEN [status |-> "ValueError", made |-> {}, files |-> <<>>]
    ELSE LET loop == SaveLoop(self.frames, output_dir, prefix, <<>>)
         IN  [status |-> loop.status, made |-> {output_dir}, files |-> loop.files]

get_num_frames(self) == Len(self.frames)

\* (a duration counted in whole seconds)
get_video_duration_whole(self) ==
    IF self.fps = 0 THEN Raised("ZeroDivisionError")
    ELSE Returned(Rat(Len(self.frames) \div self.fps, 1))

\* len(self.frames) / self.fps, as the rational it denotes
get_video_duration(self) ==
    IF self.fps = 0 THEN Raised("ZeroDivisionError")
    ELSE Returned(Rat(Len(self.frames), self.fps))

\* frames the sink is fed, alike but for their content
SinkFrame(k) ==
    MkImage(1, 2, 3, LAMBDA y, x : <<10 * k + x, 100 + k, 200 + k + x>>)

SinkFrames == {SinkFrame(k) : k \in 1 .. 2}
SinkBatches == {<<>>} \cup {<<f>> : f \in SinkFrames} \cup {<<f, g>> : f \in SinkFrames, g \in SinkFrames}
Rates == {2, 30}
DriverRates == {30}

Sink == [fps |-> fps, frames |-> video_frames]

\* a sink constructed for a frame rate
InitSink ==
    /\ fps \in Rates /\ video_frames = <<>> /\ arrival = <<>>
    /\ container = NoValue /\ image_files = <<>> /\ directories = {}
    /\ frames_shared = FALSE

\* (an add_frames that adopts the caller's list while the sink is empty)
ExtendSharesWhenEmpty(self, frames) == self.frames = <<>>

\* whether the sink's list after add_frames(frames) is the list object it
\* was handed: list.extend copies the elements into the sink's own list
ExtendShares(self, frames) == FALSE

\* the renderer's frames after the sink changed its list in place
HeldByRenderer(frames) == IF frames_shared THEN frames ELSE renderer_frames

AddFrame(frame) ==
    /\ Len(video_frames) < MaxSink
    /\ video_frames' = add_frame(Sink, frame).frames
    /\ arrival' = Append(arrival, frame)
    /\ ret' = [op |-> "add_frame", args |-> [frame |-> frame], status |-> "ok",
               value |-> NoValue]
    /\ renderer_frames' = HeldByRenderer(video_frames')
    /\ UNCHANGED <<cv2_nonfinite, configVars, loadedVars, fps, container, image_files, directories, frames_shared,
                   output_size, char_image, char_mask, env_image, earlier,
                   cameraVars, driverVars>>

AddFrames(frames) ==
    /\ Len(video_frames) + Len(frames) <= MaxSink
    /\ video_frames' = add_frames(Sink, frames).frames
    /\ arrival' = arrival \o frames
    /\ ret' = [op |-> "add_frames", args |-> [frames |-> frames], status |-> "ok",
               value |-> NoValue]
    /\ renderer_frames' = HeldByRenderer(video_frames')
    /\ UNCHANGED <<cv2_nonfinite, configVars, loadedVars, fps, container, image_files, directories, frames_shared,
                   output_size, char_image, char_mask, env_image, earlier,
                   cameraVars, driverVars>>

\* (an encode that drops the frames once they are written)
FramesDropped(self, status) == IF status = "ok" THEN <<>> ELSE self.frames

\* self.frames after generate_video or save_frames_as_images: neither assigns
\* it, the list is only iterated
FramesKept(self, status) == self.frames

GenerateVideo(output_path, codec) ==
    LET r == generate_video(Sink, output_path, codec)
    IN  /\ container' = IF r.container = NoValue THEN container ELSE r.container
        /\ ret' = [op |-> "generate_video",
                   args |-> [output_path |-> output_path, codec |-> codec],
                   status |-> r.status, value |-> NoValue]
        /\ video_frames' = FramesKept(Sink, r.status)
        /\ UNCHANGED <<cv2_nonfinite, configVars, loadedVars, fps, arrival, image_files, directories, frames_shared, rendererVars, earlier,
                       cameraVars, driverVars>>

\* video_gen.add_frames(renderer.get_frames()): the sink is handed the
\* renderer's own list
AddRenderedFrames ==
    /\ Len(video_frames) + Len(renderer_frames) <= MaxSink
    /\ video_frames' = add_frames(Sink, renderer_frames).frames
    /\ arrival' = arrival \o renderer_frames
    /\ frames_shared' = (frames_shared \/ ExtendShares(Sink, renderer_frames))
    /\ renderer_frames' = IF frames_shared' THEN video_frames' ELSE renderer_frames
    /\ ret' = [op |-> "add_frames", args |-> [frames |-> renderer_frames],
               status |-> "ok", value |-> NoValue]
    /\ UNCHANGED <<cv2_nonfinite, configVars, loadedVars, fps, container, image_files, directories,
                   output_size, char_image, char_mask, env_image, earlier,
                   cameraVars, driverVars>>

SaveFramesAsImages(output_dir, prefix) ==
    LET r == save_frames_as_images(Sink, output_dir, prefix)
    IN  /\ image_files' = IF r.made = {} THEN image_files ELSE r.files
        /\ directories' = directories \cup r.made
        /\ ret' = [op |-> "save_frames_as_images",
                   args |-> [output_dir |-> output_dir, prefix |-> prefix],
                   status |-> r.status, value |-> NoValue]
        /\ video_frames' = FramesKept(Sink, r.status)
        /\ UNCHANGED <<cv2_nonfinite, configVars, loadedVars, fps, arrival, container, frames_shared, rendererVars, earlier,
                       cameraVars, driverVars>>

SinkClearFrames ==
    /\ video_frames' = <<>>
    /\ arrival' = <<>>
    /\ ret' = [op |-> "sink.clear_frames", args |-> NoValue, status |-> "ok",
               value |-> NoValue]
    /\ frames_shared' = FALSE
    /\ UNCHANGED <<cv2_nonfinite, configVars, loadedVars, fps, container, image_files, directories, rendererVars, earlier,
                   cameraVars, driverVars>>

GetNumFrames ==
    /\ ret' = [op |-> "get_num_frames", args |-> NoValue, status |-> "ok",
               value |-> get_num_frames(Sink)]
    /\ UNCHANGED <<cv2_nonfinite, configVars, loadedVars, sinkVars, rendererVars, earlier, cameraVars, driverVars>>

GetVideoDuration ==
    LET r == get_video_duration(Sink)
    IN  /\ ret' = [op |-> "get_video_duration", args |-> NoValue,
                   status |-> r.status, value |-> r.value]
        /\ UNCHANGED <<cv2_nonfinite, configVars, loadedVars, sinkVars, rendererVars, earlier, cameraVars, driverVars>>

InitEncode ==
    /\ InitSink /\ ret = NoCall /\ earlier = NoCall /\ cv2_nonfinite = NoValue /\ NothingLoaded /\ NoConfig
    /\ NoRenderer /\ NoCamera /\ NoDriver

NextEncode ==
    \/ \E f \in SinkFrames : AddFrame(f)
    \/ \E fs \in SinkBatches : AddFrames(fs)
    \/ GenerateVideo("output.mp4", "mp4v")
    \/ SaveFramesAsImages(Path("frames"), "frame")
    \/ SinkClearFrames
    \/ GetNumFrames
    \/ GetVideoDuration

SpecEncode == InitEncode /\ [][NextEncode]_vars

\* the characters of a file's name after the prefix and its underscore, by
\* their code points: the digits, then ".png"
NameChars(name) == [i \in 1 .. Len(name.digits) |-> 48 + name.digits[i]] \o <<46, 112, 110, 103>>

\* indices of frames early in a sequence and around the hundred-thousandth
IndexSamples == (0 .. 11) \cup (99998 .. 100001)

\* the name save_frames_as_images builds for the frame at idx
NameFrame(idx) ==
    /\ ret' = [op |-> "filename", args |-> [idx |-> idx], status |-> "ok",
               value |-> Filename("frame", idx)]
    /\ UNCHANGED <<cv2_nonfinite, configVars, loadedVars, earlier, rendererVars, cameraVars, sinkVars, driverVars>>

\* the observer keeps the name just built
RememberName ==
    /\ ret.op = "filename"
    /\ earlier # ret
    /\ earlier' = ret
    /\ UNCHANGED <<cv2_nonfinite, configVars, loadedVars, ret, rendererVars, cameraVars, sinkVars, driverVars>>

NextNaming ==
    \/ \E idx \in IndexSamples : NameFrame(idx)
    \/ RememberName

SpecNaming == InitEncode /\ [][NextNaming]_vars

\* frames of two shapes: add_frame and add_frames take whatever they are handed
ShapedFrames == SinkFrames \cup {EnvImage(1, 2)}

\* a sink filled frame by frame with frames of either shape, and encoded
NextShapes ==
    \/ \E f \in ShapedFrames : AddFrame(f)
    \/ \E f \in ShapedFrames, g \in ShapedFrames : AddFrames(<<f, g>>)
    \/ GenerateVideo("output.mp4", "mp4v")

SpecShapes == InitEncode /\ [][NextShapes]_vars

\* a single-channel frame of the other frames' height and width, which
\* cvtColor(frame, COLOR_RGB2BGR) rejects
GrayFrame == MaskImage(2, 1, "mixed")

ReleaseFrames == SinkFrames \cup {GrayFrame}

\* a sink filled with colour and single-channel frames in any order, encoded
\* and cleared
NextRelease ==
    \/ \E f \in ReleaseFrames : AddFrame(f)
    \/ \E f \in ReleaseFrames, g \in ReleaseFrames : AddFrames(<<f, g>>)
    \/ GenerateVideo("output.mp4", "mp4v")
    \/ SinkClearFrames

SpecRelease == InitEncode /\ [][NextRelease]_vars

\* ---- the renderer and the sink together
\* a renderer with its scene, and a sink constructed next to it
InitPipeline ==
    /\ InitRenderer
    /\ output_size = <<MaxOut, MaxOut - 1>>
    /\ char_image.w \in {1, 2} /\ char_image.h = char_image.w
    /\ char_image = CharImage(char_image.w, char_image.h, 4, 0)
    /\ char_mask = MaskImage(char_image.w, char_image.h, "mixed")
    /\ env_image.w = output_size[1]
    /\ InitSink
    /\ ret = NoCall /\ earlier = NoCall /\ cv2_nonfinite = NoValue
    /\ NothingLoaded /\ NoConfig /\ NoCamera /\ NoDriver

\* sequences rendered, read and cleared on the renderer; the sink filled with
\* the renderer's list or frame by frame, and cleared
NextPipeline ==
    \/ \E as \in ZeroSeqs, s \in HistoryScales : RenderFrames(as, s)
    \/ GetFrames
    \/ ClearFrames
    \/ AddRenderedFrames
    \/ \E f \in SinkFrames : AddFrame(f)
    \/ SinkClearFrames

SpecPipeline == InitPipeline /\ [][NextPipeline]_vars

\* ------------------------------------------------------------ PIL.Image
\* A file is [kind |-> "missing"] or [kind |-> "image", mode, image]; an
\* opened picture is [mode, image].
MissingFile == [kind |-> "missing"]
ImageFile(mode, image) == [kind |-> "image", mode |-> mode, image |-> image]

\* Image.open(path)
ImageOpen(file) ==
    IF file.kind = "missing" THEN Raised("FileNotFoundError")
    ELSE Returned([mode |-> file.mode, image |-> file.image])

\* the ITU-R 601-2 luma transform of Image.convert('L')
Luma(p) == (p[1] * 19595 + p[2] * 38470 + p[3] * 7471 + 32768) \div 65536

\* Image.convert('RGBA')
ConvertRGBA(pic) ==
    LET i == pic.image
    IN  [mode |-> "RGBA",
         image |-> IF pic.mode = "RGBA" THEN i
                   ELSE IF pic.mode = "RGB"
                   THEN MkImage(i.h, i.w, 4, LAMBDA y, x : i.px[<<y, x>>] \o <<255>>)
                   ELSE MkImage(i.h, i.w, 4, LAMBDA y, x : <<i.px[<<y, x>>][1], i.px[<<y, x>>][1], i.px[<<y, x>>][1], 255>>)]

\* Image.convert('RGB')
ConvertRGB(pic) ==
    LET i == pic.image
    IN  [mode |-> "RGB",
         image |-> IF pic.mode = "RGB" THEN i
                   ELSE IF pic.mode = "RGBA" THEN DropAlpha(i)
                   ELSE MkImage(i.h, i.w, 3, LAMBDA y, x : <<i.px[<<y, x>>][1], i.px[<<y, x>>][1], i.px[<<y, x>>][1]>>)]

\* Image.convert('L')
ConvertL(pic) ==
    LET i == pic.image
    IN  [mode |-> "L",
         image |-> IF pic.mode = "L" THEN i
                   ELSE MkImage(i.h, i.w, 1, LAMBDA y, x : <<Luma(i.px[<<y, x>>])>>)]

\* np.array(picture)[:, :, 3]
AlphaChannel(img) == MkImage(img.h, img.w, 1, LAMBDA y, x : <<img.px[<<y, x>>][4]>>)

\* ----------------------------------------------------------- CharacterHandler
NewCharacterHandler ==
    [character_image |-> NoValue, character_mask |-> NoValue, character_size |-> NoValue]

\* load_character: [status, self]; a path is the file it names, or NoValue
\* for None.  The image
\* is stored before the mask is opened.
load_character(self, image_path, mask_path) ==
    LET opened == ImageOpen(image_path)
    IN  IF opened.status # "ok" THEN [status |-> opened.status, self |-> self]
        ELSE LET pic == ConvertRGBA(opened.value)
                 self1 == [self EXCEPT !.character_image = pic,
                                       !.character_size = <<pic.image.w, pic.image.h>>]
             IN  IF mask_path # NoValue
                 THEN LET mask_img == ImageOpen(mask_path)
                      IN  IF mask_img.status # "ok"
                          THEN [status |-> mask_img.status, self |-> self1]
                          ELSE [status |-> "ok",
                                self |-> [self1 EXCEPT !.character_mask = ConvertL(mask_img.value).image]]
                 ELSE [status |-> "ok",
                       self |-> [self1 EXCEPT !.character_mask = AlphaChannel(pic.image)]]

get_character_data(self) ==
    IF self.character_image = NoValue THEN Raised("ValueError")
    ELSE Returned(<<self.character_image.image, self.character_mask>>)

\* --------------------------------------------------------- EnvironmentHandler
NewEnvironmentHandler ==
    [environment_image |-> NoValue, environment_type |-> NoValue, environment_size |-> NoValue]

\* (a load_environment that records the size as (height, width))
load_environment_transposed(self, image_path) ==
    LET opened == ImageOpen(image_path)
    IN  IF opened.status # "ok" THEN [status |-> opened.status, self |-> self]
        ELSE LET pic == ConvertRGB(opened.value)
             IN  [status |-> "ok",
                  self |-> [environment_image |-> pic, environment_type |-> "image",
                            environment_size |-> <<pic.image.h, pic.image.w>>]]

load_environment(self, image_path) ==
    LET opened == ImageOpen(image_path)
    IN  IF opened.status # "ok" THEN [status |-> opened.status, self |-> self]
        ELSE LET pic == ConvertRGB(opened.value)
             IN  [status |-> "ok",
                  self |-> [environment_image |-> pic, environment_type |-> "image",
                            environment_size |-> <<pic.image.w, pic.image.h>>]]

create_solid_environment(self, color, size) ==
    [environment_image |-> [mode |-> "RGB", image |-> MkImage(size[2], size[1], 3, LAMBDA y, x : color)],
     environment_type |-> "color", environment_size |-> size]

\* row y of np.linspace(0, 1, rows) blended between the two colours and cut to
\* uint8: top + (bottom - top) * y / (rows - 1), rounded down
GradientValue(top, bottom, y, rows) ==
    IF rows = 1 THEN top ELSE (y * bottom + (rows - 1 - y) * top) \div (rows - 1)

create_gradient_environment(self, top_color, bottom_color, size) ==
    [environment_image |->
        [mode |-> "RGB",
         image |-> MkImage(size[2], size[1], 3, LAMBDA y, x : [k \in 1 .. 3 |-> GradientValue(top_color[k], bottom_color[k], y, size[2])])],
     environment_type |-> "generated", environment_size |-> size]

get_environment_data(self) ==
    IF self.environment_image = NoValue THEN Raised("ValueError")
    ELSE Returned(self.environment_image.image)

\* ----------------------------------------------------------------------- main
GradientTop == <<135, 206, 235>>
GradientBottom == <<34, 139, 34>>
SkyBlue == <<135, 206, 235>>

\* the frame counts whose angles are whole quarter turns, and none
DriverFrameCounts == {n \in 0 .. MaxNumFrames : n = 0 \/ 4 % n = 0}
Resolutions == {<<MaxOut, MaxOut - 1>>}
CharacterFiles ==
    {MissingFile, ImageFile("RGBA", CharImage(2, 2, 4, 0)),
     ImageFile("RGB", CharImage(1, 2, 3, 1)),
     ImageFile("RGBA", CharImage(MaxOut + 2, 1, 4, 0))}
MaskFiles == {NoValue, ImageFile("L", MaskImage(2, 2, "mixed"))}
EnvironmentFiles == {NoValue, MissingFile, ImageFile("RGB", EnvImage(MaxOut + 1, MaxOut))}

\* an --output whose file cannot be created (its directory exists and is
\* read-only): cv2.VideoWriter does not raise for it, the writer stays
\* unopened and out.write drops every frame
UnwritableOutput == "readonly/output.mp4"

\* whether cv2.VideoWriter(output_path, ...) opens; generate_video never asks
\* (no isOpened call)
WriterOpens(output_path) == output_path # UnwritableOutput

ArgSets ==
    LET writable ==
            [character : CharacterFiles, character_mask : MaskFiles,
             environment : EnvironmentFiles, env_type : {"gradient", "color"},
             env_color : {SkyBlue}, output : {"output.mp4"},
             output_frames : {NoValue, Path("frames")}, fps : DriverRates,
             num_frames : DriverFrameCounts, resolution : Resolutions,
             camera_radius : {5}, camera_height : {10}, top_view : BOOLEAN,
             character_scale : HistoryScales]
    IN  writable \cup
        {[a EXCEPT !.output = UnwritableOutput] :
            a \in {b \in writable : ~b.top_view /\ b.env_type = "color"
                                        /\ b.environment = NoValue}}

\* main after parse_args
InitMain ==
    /\ args \in ArgSets
    /\ pc = "load_character"
    /\ exit_status = NoValue
    /\ character_handler = NoValue /\ environment_handler = NoValue
    /\ ret = NoCall /\ earlier = NoCall /\ cv2_nonfinite = NoValue /\ NothingLoaded /\ NoConfig
    /\ NoRenderer /\ NoCamera /\ NoSink

\* sys.exit(1) or the return of main
Exit(status) == pc' = "exited" /\ exit_status' = status

Call(op, a, status, value) == [op |-> op, args |-> a, status |-> status, value |-> value]

\* [1/5] the character is loaded, or the run ends with status 1
MainLoadCharacter ==
    /\ pc = "load_character"
    /\ LET r == load_character(NewCharacterHandler, args.character, args.character_mask)
       IN  /\ character_handler' = r.self
           /\ ret' = Call("load_character", NoValue, r.status, NoValue)
           /\ IF r.status = "ok"
              THEN pc' = "setup_environment" /\ UNCHANGED exit_status
              ELSE Exit(1)
    /\ character_loaded' = (load_character(NewCharacterHandler, args.character, args.character_mask).status = "ok")
    /\ UNCHANGED <<cv2_nonfinite, configVars, environment_loaded, args, environment_handler,
                   rendererVars, earlier, cameraVars, sinkVars>>

\* [2/5] the environment is loaded or created, or the run ends with status 1
MainSetupEnvironment ==
    /\ pc = "setup_environment"
    /\ LET new == NewEnvironmentHandler
           r == IF args.environment # NoValue
                THEN load_environment(new, args.environment)
                ELSE IF args.env_type = "gradient"
                THEN [status |-> "ok",
                      self |-> create_gradient_environment(new, GradientTop, GradientBottom, args.resolution)]
                ELSE [status |-> "ok",
                      self |-> create_solid_environment(new, args.env_color, args.resolution)]
       IN  /\ environment_handler' = r.self
           /\ ret' = Call("setup_environment", NoValue, r.status, NoValue)
           /\ IF r.status = "ok"
              THEN pc' = "generate_trajectory" /\ UNCHANGED exit_status
              ELSE Exit(1)
    /\ environment_loaded' = (args.environment = NoValue \/ ImageOpen(args.environment).status = "ok")
    /\ UNCHANGED <<cv2_nonfinite, configVars, character_loaded, args, character_handler,
                   rendererVars, earlier, cameraVars, sinkVars>>

\* [3/5] the camera is constructed and its trajectory generated
MainGenerateTrajectory ==
    /\ pc = "generate_trajectory"
    /\ LET new == [radius |-> args.camera_radius, height |-> args.camera_height,
                   num_frames |-> args.num_frames, camera_positions |-> NoValue,
                   camera_targets |-> NoValue, camera_ups |-> NoValue]
       IN  IF args.top_view
           THEN /\ CameraBecomes(generate_top_view_trajectory(new, <<0, 0, 0>>, ZeroAngle))
                /\ ret' = Call("generate_top_view_trajectory",
                               [center |-> <<0, 0, 0>>, tilt_angle |-> ZeroAngle], "ok", NoValue)
           ELSE /\ CameraBecomes(generate_circular_trajectory(new, <<0, 0, 0>>, ZeroAngle))
                /\ ret' = Call("generate_circular_trajectory",
                               [center |-> <<0, 0, 0>>, start_angle |-> ZeroAngle], "ok", NoValue)
    /\ generated' = TRUE
    /\ pc' = "render_frames"
    /\ UNCHANGED <<cv2_nonfinite, configVars, loadedVars, args, exit_status, character_handler, environment_handler,
                   rendererVars, earlier, sinkVars>>

\* [4/5] the renderer is constructed and handed the angles of a whole turn
MainRenderFrames ==
    /\ pc = "render_frames"
    /\ LET data == get_character_data(character_handler).value
           env == get_environment_data(environment_handler).value
           angles == Linspace(ZeroAngle, args.num_frames)
           r == render_frames([output_size |-> args.resolution, frames |-> <<>>],
                              data[1], data[2], env, angles, args.character_scale)
       IN  /\ output_size' = args.resolution
           /\ renderer_frames' = r.frames
           /\ char_image' = data[1]
           /\ char_mask' = data[2]
           /\ env_image' = env
           /\ ret' = Call("render_frames",
                          [camera_angles |-> angles, character_scale |-> args.character_scale],
                          r.status, r.value)
           /\ IF r.status = "ok"
              THEN pc' = "generate_video" /\ UNCHANGED exit_status
              ELSE Exit(1)
    /\ UNCHANGED <<cv2_nonfinite, configVars, loadedVars, args, character_handler, environment_handler, earlier, cameraVars, sinkVars>>

\* [5/5] the sink is filled with the rendered frames, the video
\* is written and then, when asked for, the frames are saved
MainGenerateVideo ==
    /\ pc = "generate_video"
    /\ LET video_gen == add_frames([fps |-> args.fps, frames |-> <<>>], renderer_frames)
           video == generate_video(video_gen, args.output, "mp4v")
           saving == video.status = "ok" /\ args.output_frames # NoValue
           saved == save_frames_as_images(video_gen, args.output_frames, "frame")
       IN  /\ fps' = video_gen.fps
           /\ video_frames' = video_gen.frames
           /\ frames_shared' = ExtendShares([fps |-> args.fps, frames |-> <<>>], renderer_frames)
           /\ arrival' = renderer_frames
           /\ container' = video.container
           /\ image_files' = IF saving THEN saved.files ELSE <<>>
           /\ directories' = {Path(".")} \cup (IF saving THEN {args.output_frames} \cup saved.made ELSE {})
           /\ ret' = IF saving
                     THEN Call("save_frames_as_images",
                               [output_dir |-> args.output_frames, prefix |-> "frame"],
                               saved.status, NoValue)
                     ELSE Call("generate_video",
                               [output_path |-> args.output, codec |-> "mp4v"],
                               video.status, NoValue)
           /\ IF video.status = "ok" /\ (saving => saved.status = "ok")
              THEN Exit(0)
              ELSE Exit(1)
    /\ UNCHANGED <<cv2_nonfinite, configVars, loadedVars, args, character_handler, environment_handler, rendererVars, earlier, cameraVars>>

NextMain ==
    \/ MainLoadCharacter
    \/ MainSetupEnvironment
    \/ MainGenerateTrajectory
    \/ MainRenderFrames
    \/ MainGenerateVideo

SpecMain == InitMain /\ [][NextMain]_vars

\* ---- the handlers on their own
\* Image.resize(size, Image.Resampling.LANCZOS): the size is exact; the
\* Lanczos-filtered values are stood in for by the bilinear ones, which agree
\* with them when the size does not change
PilResize(pic, size) == [mode |-> pic.mode, image |-> Resize(pic.image, size[1], size[2])]

\* np.all(image_array < 250, axis=2).astype(np.uint8) * 255
NonWhiteMask(img) ==
    MkImage(img.h, img.w, 1, LAMBDA y, x : <<IF \A k \in 1 .. img.c : img.px[<<y, x>>][k] < 250 THEN 255 ELSE 0>>)

\* load_character_from_array; mask_array is NoValue for None
load_character_from_array(self, image_array, mask_array) ==
    IF image_array.c = 4
    THEN [character_image |-> [mode |-> "RGBA", image |-> image_array],
          character_mask |-> AlphaChannel(image_array),
          character_size |-> <<image_array.w, image_array.h>>]
    ELSE [character_image |-> [mode |-> "RGB", image |-> image_array],
          character_mask |-> IF mask_array # NoValue THEN mask_array
                             ELSE NonWhiteMask(image_array),
          character_size |-> <<image_array.w, image_array.h>>]

\* preprocess_character: [status, self]; target_size is NoValue for None.  The
\* image is resized and stored before the mask is resized.
preprocess_character(self, target_size) ==
    IF self.character_image = NoValue THEN [status |-> "ValueError", self |-> self]
    ELSE IF target_size = NoValue THEN [status |-> "ok", self |-> self]
    ELSE LET self1 == [self EXCEPT !.character_image = PilResize(@, target_size)]
         IN  IF self.character_mask = NoValue
             THEN [status |-> "cv2.error", self |-> self1]
             ELSE [status |-> "ok",
                   self |-> [self1 EXCEPT !.character_mask = Resize(@, target_size[1], target_size[2]),
                                          !.character_size = target_size]]

load_environment_from_array(self, image_array) ==
    [environment_image |-> [mode |-> "RGB", image |-> image_array],
     environment_type |-> "image",
     environment_size |-> <<image_array.w, image_array.h>>]

preprocess_environment(self, target_size) ==
    IF self.environment_image = NoValue THEN [status |-> "ValueError", self |-> self]
    ELSE IF target_size = NoValue THEN [status |-> "ok", self |-> self]
    ELSE [status |-> "ok",
          self |-> [self EXCEPT !.environment_image = PilResize(@, target_size),
                                !.environment_size = target_size]]

\* a 3-channel picture on a white ground: pure red, white and a dark pixel
Backdrop(w, h) ==
    MkImage(h, w, 3, LAMBDA y, x : <<<<255, 0, 0>>, <<255, 255, 255>>, <<10, 20, 30>>>>[((x + y) % 3) + 1])

HandlerImageFiles ==
    {MissingFile, ImageFile("RGBA", CharImage(2, 2, 4, 0)), ImageFile("RGB", Backdrop(1, 2))}
HandlerMaskFiles ==
    {NoValue, MissingFile, ImageFile("L", MaskImage(2, 2, "mixed")), ImageFile("L", MaskImage(1, 2, "opaque"))}
ImageArrays == {CharImage(2, 2, 4, 1), Backdrop(2, 1)}
MaskArrays == {NoValue, MaskImage(2, 1, "mixed"), MaskImage(2, 2, "opaque")}
TargetSizes == {NoValue, <<1, 1>>, <<2, 3>>}
HandlerEnvironmentFiles ==
    {MissingFile, ImageFile("RGB", EnvImage(2, 1)), ImageFile("RGBA", CharImage(2, 2, 4, 0))}
EnvironmentSizes == {<<2, 1>>, <<1, 2>>}

\* the two handlers constructed, nothing else
InitHandlers ==
    /\ character_handler = NewCharacterHandler
    /\ environment_handler = NewEnvironmentHandler
    /\ pc = NoValue /\ args = NoValue /\ exit_status = NoValue
    /\ character_loaded = FALSE /\ environment_loaded = FALSE /\ NoConfig
    /\ ret = NoCall /\ earlier = NoCall /\ cv2_nonfinite = NoValue
    /\ NoRenderer /\ NoCamera /\ NoSink

\* what a call on the character handler leaves alone
CharacterFrame ==
    UNCHANGED <<configVars, environment_handler, environment_loaded, pc, args, exit_status, earlier,
                cv2_nonfinite, rendererVars, cameraVars, sinkVars>>

\* what a call on the environment handler leaves alone
EnvironmentFrame ==
    UNCHANGED <<configVars, character_handler, character_loaded, pc, args, exit_status,
                cv2_nonfinite, rendererVars, cameraVars, sinkVars>>

LoadCharacter(image_path, mask_path) ==
    LET r == load_character(character_handler, image_path, mask_path)
    IN  /\ character_handler' = r.self
        /\ character_loaded' = (character_loaded \/ r.status = "ok")
        /\ ret' = Call("load_character", [image_path |-> image_path, mask_path |-> mask_path], r.status, NoValue)
        /\ CharacterFrame

LoadCharacterFromArray(image_array, mask_array) ==
    /\ character_handler' = load_character_from_array(character_handler, image_array, mask_array)
    /\ character_loaded' = TRUE
    /\ ret' = Call("load_character_from_array", [image_array |-> image_array, mask_array |-> mask_array], "ok", NoValue)
    /\ CharacterFrame

PreprocessCharacter(target_size) ==
    LET r == preprocess_character(character_handler, target_size)
    IN  /\ character_handler' = r.self
        /\ ret' = Call("preprocess_character", [target_size |-> target_size], r.status, NoValue)
        /\ UNCHANGED character_loaded
        /\ CharacterFrame

GetCharacterData ==
    LET r == get_character_data(character_handler)
    IN  /\ ret' = Call("get_character_data", NoValue, r.status, r.value)
        /\ UNCHANGED <<character_handler, character_loaded>>
        /\ CharacterFrame

LoadEnvironment(image_path) ==
    LET r == load_environment(environment_handler, image_path)
    IN  /\ environment_handler' = r.self
        /\ environment_loaded' = (environment_loaded \/ r.status = "ok")
        /\ ret' = Call("load_environment", [image_path |-> image_path], r.status, NoValue)
        /\ UNCHANGED earlier
        /\ EnvironmentFrame

LoadEnvironmentFromArray(image_array) ==
    /\ environment_handler' = load_environment_from_array(environment_handler, image_array)
    /\ environment_loaded' = TRUE
    /\ ret' = Call("load_environment_from_array", [image_array |-> image_array], "ok", NoValue)
    /\ UNCHANGED earlier
    /\ EnvironmentFrame

\* earlier remembers the latest call that asked for a size
CreateSolidEnvironment(color, size) ==
    /\ environment_handler' = create_solid_environment(environment_handler, color, size)
    /\ environment_loaded' = TRUE
    /\ ret' = Call("create_solid_environment", [color |-> color, size |-> size], "ok", NoValue)
    /\ earlier' = ret'
    /\ EnvironmentFrame

CreateGradientEnvironment(top_color, bottom_color, size) ==
    /\ environment_handler' = create_gradient_environment(environment_handler, top_color, bottom_color, size)
    /\ environment_loaded' = TRUE
    /\ ret' = Call("create_gradient_environment", [top_color |-> top_color, bottom_color |-> bottom_color, size |-> size], "ok", NoValue)
    /\ earlier' = ret'
    /\ EnvironmentFrame

PreprocessEnvironment(target_size) ==
    LET r == preprocess_environment(environment_handler, target_size)
    IN  /\ environment_handler' = r.self
        /\ ret' = Call("preprocess_environment", [size |-> target_size], r.status, NoValue)
        /\ earlier' = IF r.status = "ok" /\ target_size # NoValue THEN ret' ELSE earlier
        /\ UNCHANGED environment_loaded
        /\ EnvironmentFrame

GetEnvironmentData ==
    LET r == get_environment_data(environment_handler)
    IN  /\ ret' = Call("get_environment_data", NoValue, r.status, r.value)
        /\ UNCHANGED <<environment_handler, environment_loaded, earlier>>
        /\ EnvironmentFrame

NextHandlers ==
    \/ \E f \in HandlerImageFiles, m \in HandlerMaskFiles : LoadCharacter(f, m)
    \/ \E a \in ImageArrays, m \in MaskArrays : LoadCharacterFromArray(a, m)
    \/ \E t \in TargetSizes : PreprocessCharacter(t)
    \/ GetCharacterData
    \/ \E f \in HandlerEnvironmentFiles : LoadEnvironment(f)
    \/ LoadEnvironmentFromArray(EnvImage(1, 1))
    \/ \E z \in EnvironmentSizes : CreateSolidEnvironment(SkyBlue, z)
    \/ \E z \in EnvironmentSizes : CreateGradientEnvironment(GradientTop, GradientBottom, z)
    \/ \E t \in TargetSizes : PreprocessEnvironment(t)
    \/ GetEnvironmentData

SpecHandlers == InitHandlers /\ [][NextHandlers]_vars

\* ------------------------------------------------------- Config, continued
\* key.split('.') of a key given as its pieces and the dots between them
RECURSIVE Split(_, _)
Split(key, piece) ==
    IF key = <<>> THEN <<piece>>
    ELSE IF Head(key) = "." THEN <<piece>> \o Split(Tail(key), "")
    ELSE Split(Tail(key), Head(key))

\* a caller's value stored by reference: a dict becomes a heap object
\* (values within it are not dicts here), anything else is stored itself
Stored(hp, value) ==
    IF IsDictArg(value)
    THEN [heap |-> Append(hp, value.items), value |-> Ref(Len(hp) + 1)]
    ELSE [heap |-> hp, value |-> value]

\* _update_config on the Config whose self.config is object self
RECURSIVE _update_config(_, _, _)
_update_config(hp, self, updates) ==
    IF updates = <<>> THEN hp
    ELSE LET key == Head(updates).key
             value == Head(updates).value
             hp1 == IF Has(hp[self], key) /\ IsDict(Lookup(hp[self], key)) /\ IsDictArg(value)
                    THEN LET section == Lookup(hp[self], key).ref
                         IN  [hp EXCEPT ![section] = Update(@, value.items)]
                    ELSE LET st == Stored(hp, value)
                         IN  [st.heap EXCEPT ![self] = Put(@, key, st.value)]
         IN  _update_config(hp1, self, Tail(updates))

\* Config(config_dict): self.config is a new object holding the items of
\* DEFAULT_CONFIG (dict.copy copies the table, not the sections it refers to)
NewConfig(hp, config_dict) ==
    LET self == Len(hp) + 1
        hp1 == Append(hp, hp[DEFAULT_CONFIG])
    IN  [self |-> self,
         heap |-> IF config_dict # NoValue /\ config_dict.items # <<>>
                  THEN _update_config(hp1, self, config_dict.items)
                  ELSE hp1]

\* Config.from_yaml: document is what yaml.safe_load returns, a dict, or None
\* for an empty file
from_yaml(hp, document) == NewConfig(hp, document)

\* the loop of get
RECURSIVE GetLoop(_, _, _, _)
GetLoop(hp, value, keys, default) ==
    IF keys = <<>> THEN value
    ELSE IF IsDict(value) /\ Has(hp[value.ref], Head(keys))
    THEN GetLoop(hp, Lookup(hp[value.ref], Head(keys)), Tail(keys), default)
    ELSE default

\* (a get that answers None for an unset key, whatever default it was given)
get_ignoring_default(hp, self, key, default) == GetLoop(hp, Ref(self), Split(key, ""), NoValue)

get(hp, self, key, default) == GetLoop(hp, Ref(self), Split(key, ""), default)

\* the loop of set and the assignment after it: [status, heap].  On a value
\* that is not a dict, 'k not in config', config[k] and config[k] = ... raise
\* TypeError
RECURSIVE SetLoop(_, _, _, _)
SetLoop(hp, config, keys, value) ==
    IF ~IsDict(config) THEN [status |-> "TypeError", heap |-> hp]
    ELSE IF Len(keys) = 1
    THEN LET st == Stored(hp, value)
         IN  [status |-> "ok", heap |-> [st.heap EXCEPT ![config.ref] = Put(@, keys[1], st.value)]]
    ELSE IF ~Has(hp[config.ref], Head(keys))
    THEN LET hp1 == [Append(hp, <<>>) EXCEPT ![config.ref] = Put(@, Head(keys), Ref(Len(hp) + 1))]
         IN  SetLoop(hp1, Ref(Len(hp) + 1), Tail(keys), value)
    ELSE SetLoop(hp, Lookup(hp[config.ref], Head(keys)), Tail(keys), value)

set(hp, self, key, value) == SetLoop(hp, Ref(self), Split(key, ""), value)

MaxConfigs == 2

\* 'video.fps', 'custom.value', 'custom' and 'video.fps.max'
Keys ==
    {<<"video", ".", "fps">>, <<"custom", ".", "value">>, <<"custom">>,
     <<"video", ".", "fps", ".", "max">>}
SetValues == {Num(60)}
Overrides == {NoValue, Dict(<<Item("video", Dict(<<Item("fps", Num(24))>>))>>)}
Defaults == {NoValue, Num(7)}
YamlDocuments == {Dict(<<Item("camera", Dict(<<Item("radius", Num(8))>>))>>)}

InitConfig ==
    /\ ret = NoCall /\ earlier = NoCall /\ cv2_nonfinite = NoValue /\ NothingLoaded /\ NoConfig
    /\ NoRenderer /\ NoCamera /\ NoSink /\ NoDriver

ConfigFrame ==
    UNCHANGED <<cv2_nonfinite, loadedVars, earlier, rendererVars, cameraVars, sinkVars, driverVars>>

Construct(config_dict) ==
    /\ Len(configs) < MaxConfigs
    /\ LET r == NewConfig(heap, config_dict)
       IN  /\ heap' = r.heap
           /\ configs' = Append(configs, r.self)
           /\ ret' = Call("Config", [config_dict |-> config_dict], "ok", Len(configs) + 1)
    /\ ConfigFrame

FromYaml(document) ==
    /\ Len(configs) < MaxConfigs
    /\ LET r == from_yaml(heap, document)
       IN  /\ heap' = r.heap
           /\ configs' = Append(configs, r.self)
           /\ ret' = Call("from_yaml", [document |-> document], "ok", Len(configs) + 1)
    /\ ConfigFrame

ConfigGet(c, key, default) ==
    /\ ret' = Call("get", [config |-> c, key |-> key, default |-> default], "ok",
                   get(heap, configs[c], key, default))
    /\ UNCHANGED configVars
    /\ ConfigFrame

ConfigSet(c, key, value) ==
    /\ LET r == set(heap, configs[c], key, value)
       IN  /\ heap' = r.heap
           /\ ret' = Call("set", [config |-> c, key |-> key, value |-> value], r.status, NoValue)
    /\ UNCHANGED configs
    /\ ConfigFrame

NextConfig ==
    \/ \E d \in Overrides : Construct(d)
    \/ \E d \in YamlDocuments : FromYaml(d)
    \/ \E c \in 1 .. Len(configs), k \in Keys, d \in Defaults : ConfigGet(c, k, d)
    \/ \E c \in 1 .. Len(configs), k \in Keys, v \in SetValues : ConfigSet(c, k, v)

SpecConfig == InitConfig /\ [][NextConfig]_vars

\* ------------------------------------------------- claims on render_frame
FrameW == output_size[1]
FrameH == output_size[2]
RenderCalled == ret.op = "render_frame"
RenderReturned == RenderCalled /\ ret.status = "ok"
Unscaled == RenderCalled /\ ret.args.character_scale = <<1, 1>>
Unrotated == RenderCalled /\ ret.args.camera_angle = ZeroAngle
SubjectFits == char_image.w <= FrameW /\ char_image.h <= FrameH
MaskAll(v) == \A p \in DOMAIN char_mask.px : char_mask.px[p] = <<v>>
\* the background as render_frame resizes it
ResizedBackground == Resize(env_image, FrameW, FrameH)
\* the rectangle of a w x h subject centred on the frame centre
RectX0 == FrameW \div 2 - char_image.w \div 2
RectY0 == FrameH \div 2 - char_image.h \div 2
InRect(y, x) ==
    /\ x >= RectX0 /\ x < RectX0 + char_image.w
    /\ y >= RectY0 /\ y < RectY0 + char_image.h
SubjectRGB(y, x) == SubSeq(char_image.px[<<y - RectY0, x - RectX0>>], 1, 3)
SubjectMask(y, x) == char_mask.px[<<y - RectY0, x - RectX0>>][1]

\* C1: render_frame never raises because of the subject's size: at scale 1.0,
\* whatever the subject's width and height, the call returns a frame of shape
\* (H, W, 3).
C1_NeverRaisesOnSize ==
    Unscaled => /\ ret.status = "ok"
                /\ Shape(ret.value) = <<FrameH, FrameW, 3>>

\* C2: whenever render_frame returns, the frame has shape (H, W, 3) and 8-bit
\* values, and a 4-channel subject gives the frame its RGB channels alone give.
C2_FrameShape ==
    RenderReturned =>
        /\ Shape(ret.value) = <<FrameH, FrameW, 3>>
        /\ DOMAIN ret.value.px = Coords(FrameH, FrameW)
        /\ \A p \in DOMAIN ret.value.px :
               \A k \in 1 .. 3 : ret.value.px[p][k] \in 0 .. 255
        /\ char_image.c = 4 =>
               ret.value = render_frame(Self, DropAlpha(char_image), char_mask,
                                        env_image, ret.args.camera_angle,
                                        ret.args.character_scale).value

C2_Witness ==
    /\ RenderReturned
    /\ char_image.c = 4
    /\ char_image.w # char_image.h
    /\ ret.args.camera_angle # ZeroAngle

\* C3: a subject that fits, at scale 1.0 and angle 0.0 with a mask of 255
\* everywhere, appears unchanged in the rectangle centred on the frame centre,
\* and every pixel outside the rectangle is the resized background.
C3_OpaqueSubjectCentred ==
    (Unscaled /\ Unrotated /\ SubjectFits /\ MaskAll(255)) =>
        /\ ret.status = "ok"
        /\ \A p \in Coords(FrameH, FrameW) :
               ret.value.px[p] = IF InRect(p[1], p[2]) THEN SubjectRGB(p[1], p[2])
                                 ELSE ResizedBackground.px[p]

C3_Witness ==
    /\ Unscaled /\ Unrotated /\ MaskAll(255) /\ RenderReturned
    /\ char_image.w < FrameW /\ char_image.h < FrameH
    /\ char_image.w = 2 /\ FrameW = 3

\* C4: with a mask of 0 everywhere a subject that fits leaves the resized
\* background at every pixel; at scale 1.0 and angle 0.0 a pixel of mask 255
\* shows the subject and a pixel of mask 0 shows the background.
C4_MaskSelects ==
    /\ (Unscaled /\ SubjectFits /\ MaskAll(0)) =>
           (ret.status = "ok" /\ ret.value = ResizedBackground)
    /\ (Unscaled /\ Unrotated /\ SubjectFits) =>
           /\ ret.status = "ok"
           /\ \A p \in Coords(FrameH, FrameW) :
                  /\ (InRect(p[1], p[2]) /\ SubjectMask(p[1], p[2]) = 255) =>
                         ret.value.px[p] = SubjectRGB(p[1], p[2])
                  /\ (InRect(p[1], p[2]) /\ SubjectMask(p[1], p[2]) = 0) =>
                         ret.value.px[p] = ResizedBackground.px[p]
                  /\ ~ InRect(p[1], p[2]) => ret.value.px[p] = ResizedBackground.px[p]

C4_Witness ==
    /\ Unscaled /\ SubjectFits /\ MaskAll(0) /\ RenderReturned
    /\ ret.args.camera_angle # ZeroAngle
    /\ char_image.w * char_image.h > 1

\* ------------------------------------------------ claims on render_frames
FramesReturned == ret.op = "render_frames" /\ ret.status = "ok"
\* the frame render_frame composites for one angle of the last render_frames call
FrameFor(angle) ==
    render_frame(Self, char_image, char_mask, env_image, angle,
                 ret.args.character_scale)

\* C5: render_frames returns as many frames as camera_angles has entries, frame
\* i being the frame composited for camera_angles[i], on every call; it raises
\* only if compositing one of the angles raises.
C5_FramesMatchAngles ==
    ret.op = "render_frames" =>
        /\ ret.status = "ok" <=>
               \A i \in DOMAIN ret.args.camera_angles :
                   FrameFor(ret.args.camera_angles[i]).status = "ok"
        /\ ret.status = "ok" =>
               /\ Len(ret.value) = Len(ret.args.camera_angles)
               /\ \A i \in DOMAIN ret.args.camera_angles :
                      ret.value[i] = FrameFor(ret.args.camera_angles[i]).value

C5_Witness ==
    /\ FramesReturned
    /\ Len(ret.value) = MaxAngles
    /\ ret.args.camera_angles[1] # ret.args.camera_angles[2]
    /\ ret.value[1] # ret.value[2]

\* C6: two render_frame calls with the same subject, mask, background, angle,
\* scale and output size end alike (the same frame, or the same error), however
\* many frames the renderer held at either call.
SameInputs ==
    /\ earlier.op = "render_frame"
    /\ ret.op = "render_frame"
    /\ earlier.args = ret.args
    /\ earlier.output_size = output_size
    /\ earlier.character_image = char_image
    /\ earlier.character_mask = char_mask
    /\ earlier.environment_image = env_image

C6_Deterministic ==
    SameInputs => (ret.status = earlier.status /\ ret.value = earlier.value)

C6_Witness ==
    /\ SameInputs
    /\ ret.status = "ok"
    /\ ret.args.camera_angle # ZeroAngle
    /\ earlier.stored # Len(renderer_frames)
    /\ earlier.stored > 0

\* --------------------------------------------- claims on CameraTrajectory
GenerateReturned ==
    ret.op \in {"generate_circular_trajectory", "generate_top_view_trajectory"}

\* the start angle of the trajectory just generated: top-view has none, and
\* starts at 0
Theta0 ==
    IF ret.op = "generate_circular_trajectory" THEN ret.args.start_angle
    ELSE ZeroAngle

\* the angles the coordinates of entry i (from 0) were computed from
EntryAngles(i) ==
    LET rows == <<camera_positions.rows[i + 1], camera_targets.rows[i + 1],
                  camera_ups.rows[i + 1]>>
    IN  {rows[r][k].angle : <<r, k>> \in {rk \in (1 .. 3) \X (1 .. 3) :
                                              rows[rk[1]][rk[2]].fn # "const"}}

\* C7: for every frame count N >= 1 and start angle theta0, a generate call
\* (circular or top-view) leaves positions, targets and ups with exactly N
\* rows of 3 components each, and entry i (from 0) is computed from the angle
\* theta0 + i/N of a turn: the first from theta0, consecutive ones 1/N of a
\* turn apart, none from theta0 plus a whole turn.
C7_EvenlySpacedEntries ==
    (GenerateReturned /\ num_frames >= 1) =>
        /\ Len(camera_positions.rows) = num_frames
        /\ Len(camera_targets.rows) = num_frames
        /\ Len(camera_ups.rows) = num_frames
        /\ \A i \in 0 .. num_frames - 1 :
              /\ Len(camera_positions.rows[i + 1]) = 3
              /\ Len(camera_targets.rows[i + 1]) = 3
              /\ Len(camera_ups.rows[i + 1]) = 3
              /\ EntryAngles(i) =
                    {Rat(Theta0[1] * num_frames + i * Theta0[2], Theta0[2] * num_frames)}
              /\ EntryAngles(i) # {RatAdd(Theta0, <<1, 1>>)}

C7_Witness ==
    /\ ret.op = "generate_circular_trajectory"
    /\ ret.args.start_angle = Rat(1, 3)
    /\ num_frames = 3
    /\ Len(camera_positions.rows) = 3
    /\ camera_positions.rows[1][1].angle = Rat(1, 3)
    /\ camera_positions.rows[2][2].angle = Rat(2, 3)
    /\ camera_positions.rows[3][1].angle = <<1, 1>>

QueryReturned ==
    ret.op \in {"get_camera_parameters", "get_all_camera_parameters"}

\* C8: get_camera_parameters and get_all_camera_parameters raise the
\* not-ready error (ValueError) exactly when no generate call has happened
\* since construction or since the most recent set_num_frames; once a generate
\* call has happened they answer from arrays of the current frame count.
C8_NotReadyUntilGenerated ==
    QueryReturned =>
        /\ (ret.status = "ValueError") <=> ~generated
        /\ (generated /\ ret.op = "get_all_camera_parameters") =>
              /\ ret.status = "ok"
              /\ \A k \in 1 .. 3 : Len(ret.value[k].rows) = num_frames
        /\ (generated /\ ret.op = "get_camera_parameters"
                /\ ret.args.frame_idx \in 0 .. num_frames - 1) =>
              /\ ret.status = "ok"
              /\ ret.value = <<camera_positions.rows[ret.args.frame_idx + 1],
                               camera_targets.rows[ret.args.frame_idx + 1],
                               camera_ups.rows[ret.args.frame_idx + 1]>>

C8_Witness ==
    /\ QueryReturned /\ ret.status = "ValueError" /\ ~generated
    /\ num_frames = MaxNumFrames

\* ----------------------------------------------- claims on VideoGenerator
\* frame b holds frame a's pixels with the channels in B, G, R order
SameFrameInBGR(a, b) ==
    /\ Shape(b) = <<a.h, a.w, 3>>
    /\ \A p \in Coords(a.h, a.w) :
          b.px[p] = <<a.px[p][3], a.px[p][2], a.px[p][1]>>

\* C10: the sink holds the frames in the order they were added by any
\* interleaving of add_frame and add_frames, and a generate_video or
\* save_frames_as_images that returns has written every stored frame exactly
\* once, in that order: as many writes as frames added, the i-th write
\* carrying the i-th frame added, the i-th file named by index i - 1.
C10_ArrivalOrderWritten ==
    /\ video_frames = arrival
    /\ (ret.op = "generate_video" /\ ret.status = "ok") =>
          /\ Len(container.written) = Len(arrival)
          /\ \A i \in 1 .. Len(arrival) : SameFrameInBGR(arrival[i], container.written[i])
    /\ (ret.op = "save_frames_as_images" /\ ret.status = "ok") =>
          /\ Len(image_files) = Len(arrival)
          /\ \A i \in 1 .. Len(arrival) :
                /\ SameFrameInBGR(arrival[i], image_files[i].image)
                /\ image_files[i].name = Filename("frame", i - 1)

C10_Witness ==
    /\ ret.op = "generate_video" /\ ret.status = "ok"
    /\ Len(arrival) >= 3
    /\ arrival[1] # arrival[2] /\ arrival[3] = arrival[1]
    /\ Len(container.written) = Len(arrival)
    /\ Len(image_files) = Len(arrival)

\* --------------------------------------------------------- claims on main
\* C9: when the run selects the top-view policy (whose tilt is zero), every
\* angle the compositor receives for the run's frames is 0, so no frame's
\* subject is rotated.
C9_TopViewAnglesZero ==
    (args.top_view /\ ret.op = "render_frames") =>
        \A i \in 1 .. Len(ret.args.camera_angles) : ret.args.camera_angles[i] = ZeroAngle

\* C11: for a sink holding L frames (added since construction or the last
\* clear_frames) with frame rate R, get_video_duration returns exactly L / R
\* and get_num_frames returns L.
C11_DurationIsFramesOverRate ==
    /\ ret.op = "get_video_duration" =>
          /\ ret.status = "ok"
          /\ ret.value[1] * fps = Len(arrival) * ret.value[2]
          /\ ret.value[2] > 0
    /\ ret.op = "get_num_frames" =>
          /\ ret.status = "ok"
          /\ ret.value = Len(arrival)

C11_Witness ==
    /\ ret.op = "get_video_duration" /\ ret.status = "ok"
    /\ Len(arrival) = 3 /\ fps = 2 /\ ret.value = <<3, 2>>

\* a call of generate_video or save_frames_as_images is answered with the
\* empty-sequence error (ValueError)
EmptySequenceSignalled(r) ==
    r.op \in {"generate_video", "save_frames_as_images"} /\ r.status = "ValueError"

\* C12: an encode requested with zero stored frames raises the empty-sequence
\* error, and an encode that raises it has opened no video writer, created no
\* directory, written no file and left the sink's state as it was.
C12_EmptySequenceRaisesFirst ==
    [][ ret'.op \in {"generate_video", "save_frames_as_images"} =>
            /\ ret'.status = "ValueError" <=> video_frames = <<>>
            /\ EmptySequenceSignalled(ret') => UNCHANGED sinkVars ]_vars

C12_Witness ==
    /\ EmptySequenceSignalled(ret)
    /\ video_frames = <<>>
    /\ container # NoValue /\ container.released
    /\ image_files # <<>> /\ directories # {}

\* some stored frame's shape differs from the first frame's
Heterogeneous(frames) ==
    \E i \in 1 .. Len(frames) : Shape(frames[i]) # Shape(frames[1])

\* C13: generate_video on a sink in which some frame's shape differs from
\* the first frame's signals a shape mismatch: it raises an error instead of
\* returning with the video written.
C13_ShapeMismatchSignalled ==
    (ret.op = "generate_video" /\ Heterogeneous(video_frames)) => ret.status # "ok"

\* a sorts strictly before b, character by character
RECURSIVE LexLess(_, _)
LexLess(a, b) ==
    IF b = <<>> THEN FALSE
    ELSE IF a = <<>> THEN TRUE
    ELSE IF Head(a) # Head(b) THEN Head(a) < Head(b)
    ELSE LexLess(Tail(a), Tail(b))

\* C14: the file names of save_frames_as_images sort as the frames follow
\* each other: for indices i < j, whatever the number of frames, the name for
\* i sorts before the name for j.
C14_NamesSortInFrameOrder ==
    (ret.op = "filename" /\ earlier.op = "filename"
        /\ earlier.args.idx < ret.args.idx) =>
        LexLess(NameChars(earlier.value), NameChars(ret.value))

\* ------------------------------------- claims on degenerate parameters
DegenerateCall ==
    /\ RenderCalled
    /\ \/ ~IsFinite(ret.args.camera_angle)
       \/ ~IsFinite(ret.args.character_scale)
       \/ ret.args.character_scale[1] <= 0

\* C15: render_frame called with a zero or negative character_scale, or with
\* a camera_angle or character_scale that is not finite, raises an error and
\* returns no frame.
C15_DegenerateRejected ==
    DegenerateCall => (ret.status # "ok" /\ ret.value = NoValue)

\* ------------------------------------------------- claims on the handlers
\* C16: get_character_data and preprocess_character raise ValueError while no
\* character has been loaded and succeed once a load call has returned;
\* get_environment_data and preprocess_environment raise ValueError while no
\* environment has been loaded or created and succeed afterwards.
C16_MissingInputSignalled ==
    /\ ret.op \in {"get_character_data", "preprocess_character"} =>
           ret.status = (IF character_loaded THEN "ok" ELSE "ValueError")
    /\ ret.op \in {"get_environment_data", "preprocess_environment"} =>
           ret.status = (IF environment_loaded THEN "ok" ELSE "ValueError")

VideoEncoded ==
    /\ container # NoValue /\ WriterOpens(container.path) /\ container.released
    /\ Len(container.written) = Len(video_frames)

\* render_frames has returned a frame for every angle
Rendered ==
    /\ ret.op \in {"render_frames", "generate_video", "save_frames_as_images"}
    /\ ret.op = "render_frames" => ret.status = "ok"
    /\ Len(renderer_frames) = args.num_frames

EveryStageSucceeded ==
    /\ character_loaded /\ environment_loaded /\ generated /\ Rendered
    /\ VideoEncoded
    /\ args.output_frames # NoValue => Len(image_files) = Len(video_frames)

\* C18: main runs load character, set up environment, generate trajectory,
\* render, encode (then save) in this order, a stage being started only when
\* every earlier one succeeded; a run in which a stage failed ends with a
\* non-zero status, and status zero means every stage succeeded.
C18_StagesInSequence ==
    /\ ret.op = "none" <=> pc = "load_character"
    /\ ret.op = "load_character" =>
           /\ ~environment_loaded /\ ~generated
           /\ pc = (IF character_loaded THEN "setup_environment" ELSE "exited")
    /\ ret.op = "setup_environment" =>
           /\ character_loaded /\ ~generated
           /\ pc = (IF environment_loaded THEN "generate_trajectory" ELSE "exited")
    /\ ret.op \in {"generate_circular_trajectory", "generate_top_view_trajectory"} =>
           character_loaded /\ environment_loaded /\ generated /\ pc = "render_frames"
    /\ ret.op = "render_frames" =>
           /\ character_loaded /\ environment_loaded /\ generated
           /\ pc = (IF Rendered THEN "generate_video" ELSE "exited")
    /\ ret.op \in {"generate_video", "save_frames_as_images"} =>
           character_loaded /\ environment_loaded /\ generated /\ Rendered /\ pc = "exited"
    /\ pc \in {"load_character", "setup_environment", "generate_trajectory"} => NoCamera
    /\ pc \in {"load_character", "setup_environment", "generate_trajectory", "render_frames"} =>
           NoRenderer
    /\ pc # "exited" => NoSink /\ exit_status = NoValue
    /\ pc = "exited" => /\ exit_status \in {0, 1}
                         /\ exit_status = 0 <=> EveryStageSucceeded

\* ----------------------------------------------------------- claims on Config
\* the keys 'section.name' of the documented defaults
DocumentedKeys ==
    UNION { LET section == ClassHeap[DEFAULT_CONFIG][s]
                items == ClassHeap[section.value.ref]
            IN  {<<section.key, ".", items[e].key>> : e \in 1 .. Len(items)} :
            s \in 1 .. Len(ClassHeap[DEFAULT_CONFIG]) }

\* C19: a Config constructed with no arguments returns the documented default
\* for every key, whatever was done to the Configs constructed before it.
C19_FreshConfigHasDefaults ==
    (ret.op = "Config" /\ ret.args.config_dict = NoValue) =>
        \A key \in DocumentedKeys :
            get(heap, configs[ret.value], key, NoValue) = get(ClassHeap, DEFAULT_CONFIG, key, NoValue)

\* C20: set(p, v) never raises, and after it get(p) returns v.
C20_SetGetRoundTrip ==
    ret.op = "set" =>
        /\ ret.status = "ok"
        /\ get(heap, configs[ret.args.config], ret.args.key, NoValue) = ret.args.value

\* the path keys leads from value to a stored value: every step but the last
\* lands in a dict that has the next key
RECURSIVE IsSet(_, _, _)
IsSet(hp, value, keys) ==
    \/ keys = <<>>
    \/ /\ IsDict(value)
       /\ \E i \in 1 .. Len(hp[value.ref]) :
              /\ hp[value.ref][i].key = Head(keys)
              /\ IsSet(hp, hp[value.ref][i].value, Tail(keys))

\* C21: get never raises, and for a path that is missing at some level or
\* runs through a value that is not a dict it returns the caller's default.
C21_UnsetKeyGivesDefault ==
    ret.op = "get" =>
        /\ ret.status = "ok"
        /\ ~IsSet(heap, Ref(configs[ret.args.config]), Split(ret.args.key, "")) =>
               ret.value = ret.args.default

C21_Witness ==
    /\ ret.op = "get"
    /\ ret.args.key = <<"video", ".", "fps", ".", "max">>
    /\ ret.args.default = Num(7) /\ ret.value = Num(7)
    /\ get(heap, configs[ret.args.config], <<"video", ".", "fps">>, NoValue) = Num(60)

\* ------------------------------------------- claims on the Background
\* nothing constructed: image, type and size unset; otherwise the array
\* get_environment_data returns has shape (height, width, 3) for the
\* recorded size (width, height)
UnsetOrShaped ==
    IF ~environment_loaded
    THEN /\ environment_handler.environment_image = NoValue
         /\ environment_handler.environment_type = NoValue
         /\ environment_handler.environment_size = NoValue
    ELSE LET data == get_environment_data(environment_handler)
         IN  /\ data.status = "ok"
             /\ Shape(data.value) = <<environment_handler.environment_size[2],
                                      environment_handler.environment_size[1], 3>>

\* the type after a step is that of the create or load call the step made,
\* and the type before it when the step made neither
KindFollowsCall ==
    environment_handler'.environment_type =
        CASE ret'.op = "create_solid_environment" -> "color"
          [] ret'.op = "create_gradient_environment" -> "generated"
          [] ret'.op \in {"load_environment", "load_environment_from_array"}
                 /\ ret'.status = "ok" -> "image"
          [] OTHER -> environment_handler.environment_type

\* the size requested by the latest create or preprocess call
SizeAsRequested ==
    (environment_loaded /\ earlier.op # "none") =>
        environment_handler.environment_size = earlier.args.size

\* the size after a step: the one requested by a create call or a preprocess
\* call with a size, the loaded picture's (width, height) after a load, and
\* the size before the step otherwise
SizeFollowsCall ==
    environment_handler'.environment_size =
        CASE ret'.op \in {"create_solid_environment", "create_gradient_environment"} ->
                 ret'.args.size
          [] ret'.op = "preprocess_environment" /\ ret'.status = "ok"
                 /\ ret'.args.size # NoValue -> ret'.args.size
          [] ret'.op = "load_environment" /\ ret'.status = "ok" ->
                 <<ret'.args.image_path.image.w, ret'.args.image_path.image.h>>
          [] ret'.op = "load_environment_from_array" ->
                 <<ret'.args.image_array.w, ret'.args.image_array.h>>
          [] OTHER -> environment_handler.environment_size

\* C22 (as stated): image, type and size are unset before any construction;
\* afterwards the type is that of the most recent create or load call, the
\* size is the one requested by the most recent create or preprocess call, and
\* get_environment_data has shape (height, width, 3).
C22_SizeOfLatestRequest ==
    /\ [](UnsetOrShaped /\ SizeAsRequested)
    /\ [][KindFollowsCall]_vars

\* C22 (amended): as above, but the size is that of the most recent call that
\* sets one: the size requested by a create or preprocess call, or the loaded
\* picture's own size after a load call.
C22_SizeOfLatestCall ==
    /\ []UnsetOrShaped
    /\ [][KindFollowsCall /\ SizeFollowsCall]_vars

C22_Witness ==
    /\ ret.op = "load_environment" /\ ret.status = "ok"
    /\ earlier.op = "create_solid_environment"
    /\ earlier.args.size = <<1, 2>>
    /\ environment_handler.environment_size = <<2, 1>>
    /\ environment_handler.environment_type = "image"

\* ------------------------------------- claims on an oversize subject
\* one axis of the call in ret: frame length n, subject length len after
\* scaling; the subject is longer than the frame
Oversize(n, len) == len > n

\* the regions Placement selects on an axis have the same length, and the
\* subject's is the window of n pixels that puts the subject's centre
\* (len // 2) on the frame's centre (n // 2)
CroppedSymmetrically(n, len) ==
    LET p == Placement(n, len)
    IN  /\ SliceLen(len, p.char_start, p.char_end) = SliceLen(n, p.start, p.end)
        /\ SliceStart(len, p.char_start) = len \div 2 - n \div 2
        /\ SliceLen(len, p.char_start, p.char_end) = n

\* C23: when the scaled subject is larger than the output frame in a
\* dimension, the subject region and the background region selected for
\* blending are equally wide and high, and the subject region is the window
\* centred on the subject's centre.
C23_OversizeCroppedSymmetrically ==
    RenderCalled =>
        LET w == ScaledLen(char_image.w, ret.args.character_scale)
            h == ScaledLen(char_image.h, ret.args.character_scale)
        IN  /\ Oversize(FrameW, w) => CroppedSymmetrically(FrameW, w)
            /\ Oversize(FrameH, h) => CroppedSymmetrically(FrameH, h)

\* ------------------------------------------- claims on the input buffers
\* C24: render_frame and render_frames leave the character_image,
\* character_mask and environment_image buffers passed to them as they were.
C24_InputsReadOnly ==
    [][ret'.op \in {"render_frame", "render_frames"} =>
           UNCHANGED <<char_image, char_mask, env_image>>]_vars

C24_Witness ==
    /\ RenderReturned
    /\ Shape(env_image) = <<FrameH, FrameW, 3>>
    /\ ret.value # env_image
    /\ ret.args.character_scale # <<1, 1>> /\ ret.args.camera_angle # ZeroAngle

\* ------------------------------------------- claims on the sink's frames
\* generate_video or save_frames_as_images has just written the stored frames
Consumed ==
    /\ ret.op \in {"generate_video", "save_frames_as_images"}
    /\ ret.status = "ok"

\* C25 (as stated): once generate_video or save_frames_as_images has written
\* the stored frames, the sink no longer holds them.
C25_FramesGoneOnceWritten ==
    Consumed => video_frames = <<>>

\* C25 (amended): generate_video and save_frames_as_images leave the stored
\* frames as they are; the sink holds them until clear_frames, which empties
\* it.
C25_FramesKeptUntilCleared ==
    [][ /\ ret'.op \in {"generate_video", "save_frames_as_images"} =>
               video_frames' = video_frames
        /\ ret'.op = "sink.clear_frames" => video_frames' = <<>> ]_vars

C25_Witness ==
    /\ Consumed
    /\ ret.op = "save_frames_as_images"
    /\ container # NoValue
    /\ Len(video_frames) = MaxSink
    /\ Len(container.written) = MaxSink /\ Len(image_files) = MaxSink

\* ------------------------------------------- claims on the derived mask
\* a subject without alpha has just been loaded and no mask came with it
LoadedWithoutMask ==
    \/ /\ ret.op = "load_character" /\ ret.status = "ok"
       /\ ret.args.mask_path = NoValue /\ ret.args.image_path.mode = "RGB"
    \/ /\ ret.op = "load_character_from_array"
       /\ ret.args.mask_array = NoValue /\ ret.args.image_array.c = 3

\* the picture the call in ret was given
SourceImage ==
    IF ret.op = "load_character" THEN ret.args.image_path.image
    ELSE ret.args.image_array

NearWhite(p) == \A k \in 1 .. 3 : p[k] >= 250

\* C26: the mask derived for a subject loaded without one is 0 exactly at the
\* near-white pixels (every channel >= 250) and 255 at every other pixel.
C26_MaskThresholdsNearWhite ==
    LoadedWithoutMask =>
        /\ Shape(character_handler.character_mask) = <<SourceImage.h, SourceImage.w>>
        /\ \A p \in DOMAIN SourceImage.px :
               character_handler.character_mask.px[p] =
                   <<IF NearWhite(SourceImage.px[p]) THEN 0 ELSE 255>>

\* ------------------------------------------- claims on Config isolation
\* what get returns on the Config whose table is object self, for the
\* documented keys and the keys in use
Reading(hp, self) == [key \in DocumentedKeys \cup Keys |-> get(hp, self, key, NoValue)]

\* C27: a set call on a Config, or an override dictionary (or YAML document)
\* given to a constructor, changes neither what get returns on any other
\* Config nor the contents of DEFAULT_CONFIG.
C27_InstancesIsolated ==
    [][ ret'.op \in {"set", "Config", "from_yaml"} =>
            /\ Reading(heap', DEFAULT_CONFIG) = Reading(heap, DEFAULT_CONFIG)
            /\ \A d \in 1 .. Len(configs) :
                   (ret'.op = "set" => d # ret'.args.config) =>
                       Reading(heap', configs[d]) = Reading(heap, configs[d]) ]_vars


\* C28: after any sequence of generate_circular_trajectory,
\* generate_top_view_trajectory and set_num_frames calls the three arrays are
\* all unset or all set, and when set each has exactly num_frames rows
AllUnset ==
    camera_positions = NoValue /\ camera_targets = NoValue /\ camera_ups = NoValue

AllSetWith(n) ==
    /\ camera_positions # NoValue /\ camera_targets # NoValue /\ camera_ups # NoValue
    /\ Len(camera_positions.rows) = n
    /\ Len(camera_targets.rows) = n
    /\ Len(camera_ups.rows) = n

C28_TrajectoryOfCurrentLength == AllUnset \/ AllSetWith(num_frames)

C28_Witness ==
    /\ ret.op = "generate_top_view_trajectory" /\ ret.args.tilt_angle # ZeroAngle
    /\ AllSetWith(MaxNumFrames)

\* C29: every video writer opened by generate_video is released before
\* generate_video returns or raises, including when converting or writing a
\* frame fails part-way through the sequence
C29_WriterReleased ==
    (ret.op = "generate_video" /\ ret.status # "ValueError") =>
        /\ container # NoValue
        /\ container.released

\* C30: the sink's frame sequence is independent of the renderer's: once the
\* sink was filled with add_frames(renderer.render_frames(...)), no call on
\* the renderer (clear_frames, render_frames, get_frames) changes the sink's
\* frames or their order, and no call on the sink (clear_frames, add_frame,
\* add_frames) changes what the renderer's get_frames returns
RendererCalled(r) == r.op \in {"render_frames", "clear_frames", "get_frames"}
SinkCalled(r) == r.op \in {"sink.clear_frames", "add_frame", "add_frames"}

C30_SinkIndependentOfRenderer ==
    [][ /\ RendererCalled(ret') => UNCHANGED video_frames
        /\ SinkCalled(ret') => UNCHANGED renderer_frames ]_vars

\* the renderer was cleared after the sink took its frames, and the sink
\* still holds them
C30_Witness ==
    /\ ret.op = "clear_frames" /\ renderer_frames = <<>>
    /\ Len(video_frames) = MaxSink /\ video_frames = arrival
    /\ \E i \in 1 .. MaxSink : video_frames[i] \notin SinkFrames
=============================================================================
